---- MODULE Spec2Model ----
(***************************************************************************)
(* A model of the fandom-tracker scoring engine.                           *)
(*                                                                         *)
(*   src/analyzers/influence_score.py  calculate_signal_score and its      *)
(*                                     nested position_to_score            *)
(*   src/update_data.py                main, the caller of the scorer      *)
(*                                                                         *)
(* Further sections model the normalizer (signal_app/metrics.py), the      *)
(* observation store and its ingestion passes (app/db.py, app/ingest.py,   *)
(* signal_app/ingest.py), concurrent passes on the store, the read         *)
(* queries (app/queries.py) and the X collector                            *)
(* (collectors/x_collector.py).                                            *)
(*                                                                         *)
(* The scorer is a pure function over three pandas DataFrames.  A          *)
(* DataFrame is modelled as the sequence of its rows; a float as an exact  *)
(* rational [n, d] in lowest terms (d > 0), so that "0.3 * x" and          *)
(* "round(v, 1)" are computed, not assumed.  A missing cell (None / NaN)   *)
(* is the empty tuple <<>>, a present integer r the tuple <<r>>.           *)
(***************************************************************************)
EXTENDS Integers, Sequences, FiniteSets, TLC

VARIABLES
    x_df,          \* social batch handed to the scorer: Seq of social rows
    yt_df,         \* video batch: Seq of video rows
    chart_df,      \* chart batch: [none : BOOLEAN, rows : Seq of chart rows]
    pc,            \* "input" | "done" | "raised" | "returned"
    results,       \* the DataFrame the scorer returned (Seq of result rows)
    position,      \* argument of a position_to_score call (<<>> or <<r>>)
    max_position,  \* its max_position argument
    pos_score,     \* <<>> before the call, <<score>> after it
    nv_args,       \* arguments of a normalize_value call
    nv_result,     \* <<>> before the call, <<value_num, value_text>> after it
    people,        \* the people table: set of Person rows
    observations,  \* the observations table: set of Observation rows
    metrics,       \* metrics.yml: metric_key -> definition
    watchlist,     \* watchlist.yml: Seq of entries
    work,          \* ingestion passes run so far
    last_pass,     \* the last ingestion pass: its input, outcome and the
                   \* observations table before it
    lock,          \* holder of the SQLite write lock: 0 (free) or a pass number
    writers,       \* the concurrent passes: pass number -> its session and
                   \* the statements it still has to run
    reads,         \* what a concurrent reader has read so far: Seq of tables
    obs_df,        \* the DataFrame handed to a query: set of joined rows
    q_result,      \* [op |-> "none"] before the query, its result after it
    artists,       \* load_artists(): Seq of [name, twitter]
    x_api,         \* what the X API answers for each artist
    artist_index,  \* collect_x_data's loop index (0-based)
    collected_artists,  \* names marked as processed
    all_data,      \* rows gathered so far: Seq of [artist, tweet]
    x_pc,          \* "idle" | "loop" | "returned"
    limits_left,   \* rate-limit answers the API may still give
    x_log          \* history: Seq of [artist, event] of the loop's iterations

vars == <<x_df, yt_df, chart_df, pc, results, position, max_position, pos_score,
          nv_args, nv_result, people, observations, metrics, watchlist, work,
          last_pass, lock, writers, reads, obs_df, q_result, artists, x_api,
          artist_index, collected_artists, all_data, x_pc, limits_left, x_log>>

\* the variables of the normalizer and of the observation store
normalizeVars == <<nv_args, nv_result>>
storeVars == <<people, observations, metrics, watchlist, work, last_pass>>

\* the variables of concurrent passes, of the queries and of the X collector
raceVars == <<lock, writers, reads>>
queryVars == <<obs_df, q_result>>
collectorVars == <<artists, x_api, artist_index, collected_artists, all_data, x_pc,
                   limits_left, x_log>>
otherVars == <<raceVars, queryVars, collectorVars>>

IdleRace == lock = 0 /\ writers = <<>> /\ reads = <<>>

IdleQueries == obs_df = {} /\ q_result = [op |-> "none"]

IdleCollector ==
    /\ artists = <<>>
    /\ x_api = <<>>
    /\ artist_index = 0
    /\ collected_artists = {}
    /\ all_data = <<>>
    /\ x_pc = "idle"
    /\ limits_left = 0
    /\ x_log = <<>>

IdleOther == IdleRace /\ IdleQueries /\ IdleCollector

\* no normalize_value call and no ingestion under way
NoPass == [kind |-> "none"]

IdleNormalize == nv_args = <<>> /\ nv_result = <<>>

IdleStore ==
    /\ people = {}
    /\ observations = {}
    /\ metrics = <<>>
    /\ watchlist = <<>>
    /\ work = 0
    /\ last_pass = NoPass

----------------------------------------------------------------------------
(* Exact rational arithmetic standing for Python's float arithmetic.       *)

Abs(a) == IF a < 0 THEN 0 - a ELSE a

RECURSIVE GCD(_, _)
GCD(a, b) == IF b = 0 THEN a ELSE GCD(b, a % b)

\* n / d in lowest terms, for d # 0
Rat(n, d) ==
    LET s == IF d < 0 THEN 0 - 1 ELSE 1
        g == GCD(Abs(n), Abs(d))
    IN  [n |-> (s * n) \div g, d |-> (s * d) \div g]

RInt(i) == [n |-> i, d |-> 1]

RAdd(a, b) ==
    LET g == GCD(a.d, b.d)
    IN  Rat(a.n * (b.d \div g) + b.n * (a.d \div g), (a.d \div g) * b.d)

RMul(a, b) ==
    LET p == Rat(a.n, b.d)
        q == Rat(b.n, a.d)
    IN  [n |-> p.n * q.n, d |-> p.d * q.d]

\* a / b, for b # 0
RDiv(a, b) == RMul(a, Rat(b.d, b.n))

RLe(a, b) == a.n * b.d <= b.n * a.d

RLt(a, b) == a.n * b.d < b.n * a.d

\* Python's min(a, b): the first argument on a tie
RMin(a, b) == IF RLt(b, a) THEN b ELSE a

\* round(n / d) to the nearest integer, ties to the even one (d > 0)
RoundHalfEven(n, d) ==
    LET q == n \div d
        r == n % d
    IN  IF 2 * r < d THEN q
        ELSE IF 2 * r > d THEN q + 1
        ELSE IF q % 2 = 0 THEN q ELSE q + 1

\* Python's round(v, 1): v to one decimal place
Round1(v) == Rat(RoundHalfEven(v.n * 10, v.d), 10)

\* Python's round(v, 3)
Round3(v) == Rat(RoundHalfEven(v.n * 1000, v.d), 1000)

----------------------------------------------------------------------------
(* position_to_score, influence_score.py lines 137-143.                    *)

\* a variant scoring rank 1 as 99: 100 - position
position_to_score_off_by_one(p, max_pos) ==
    IF p = <<>> THEN 0
    ELSE IF p[1] > max_pos THEN 0
    ELSE IF 100 - p[1] > 0 THEN 100 - p[1] ELSE 0

\* a variant reading a missing rank as rank 0
position_to_score_none_as_zero(p, max_pos) ==
    LET r == IF p = <<>> THEN 0 ELSE p[1]
    IN  IF r > max_pos THEN 0
        ELSE IF 100 - (r - 1) > 0 THEN 100 - (r - 1) ELSE 0

\* if pd.isna(position) or position is None: return 0
\* if position > max_position: return 0
\* return max(100 - (position - 1), 0)
position_to_score(p, max_pos) ==
    IF p = <<>> THEN 0
    ELSE IF p[1] > max_pos THEN 0
    ELSE IF 100 - (p[1] - 1) > 0 THEN 100 - (p[1] - 1) ELSE 0

----------------------------------------------------------------------------
(* calculate_signal_score, influence_score.py lines 27-214.                *)
(* x, yt are Seq of rows; chart is [none, rows] (chart_df=None or a frame).*)

RECURSIVE SumSeq(_)
SumSeq(s) == IF s = <<>> THEN 0 ELSE Head(s) + SumSeq(Tail(s))

\* df[df['celebrity'] == celebrity]
celeb_rows(df, celebrity) == SelectSeq(df, LAMBDA r : r.celebrity = celebrity)

\* set(df['celebrity'].unique()) if not df.empty else set()
celebs_of(df) == {df[i].celebrity : i \in 1..Len(df)}

\* the rows of chart_df where "chart_df is not None and not chart_df.empty"
\* holds, no rows otherwise
chart_rows(chart) == IF chart.none THEN <<>> ELSE chart.rows

\* a variant leaving the chart batch out of the union
all_celebs_without_chart(x, yt, chart) == celebs_of(x) \cup celebs_of(yt)

\* all_celebs = x_celebs | yt_celebs | chart_celebs
all_celebs(x, yt, chart) ==
    celebs_of(x) \cup celebs_of(yt) \cup celebs_of(chart_rows(chart))

\* a variant looking in the chart batch first
category_chart_first(x, yt, chart, celebrity) ==
    IF celeb_rows(chart_rows(chart), celebrity) # <<>>
        THEN celeb_rows(chart_rows(chart), celebrity)[1].category
    ELSE IF celeb_rows(x, celebrity) # <<>> THEN celeb_rows(x, celebrity)[1].category
    ELSE IF celeb_rows(yt, celebrity) # <<>> THEN celeb_rows(yt, celebrity)[1].category
    ELSE "Other"

\* category: the first of the social, video and chart batch holding the person
category(x, yt, chart, celebrity) ==
    IF celeb_rows(x, celebrity) # <<>> THEN celeb_rows(x, celebrity)[1].category
    ELSE IF celeb_rows(yt, celebrity) # <<>> THEN celeb_rows(yt, celebrity)[1].category
    ELSE IF celeb_rows(chart_rows(chart), celebrity) # <<>>
        THEN celeb_rows(chart_rows(chart), celebrity)[1].category
    ELSE "Other"

\* ---- X metrics, lines 80-100 ----

\* celeb_x['engagement'].mean()
avg_engagement(celeb_x) ==
    Rat(SumSeq([i \in 1..Len(celeb_x) |-> celeb_x[i].engagement]), Len(celeb_x))

\* avg_engagement / follower_count * 100 if follower_count > 0, else 0
engagement_rate(celeb_x) ==
    IF celeb_x = <<>> THEN RInt(0)
    ELSE LET follower_count == celeb_x[1].follower_count
         IN  IF follower_count > 0
                 THEN RMul(RDiv(avg_engagement(celeb_x), RInt(follower_count)), RInt(100))
                 ELSE RInt(0)

\* a variant without the cap at 100
x_score_uncapped(celeb_x) ==
    IF celeb_x = <<>> THEN RInt(0)
    ELSE RMul(engagement_rate(celeb_x), RInt(20))

\* min(engagement_rate * 20, 100), 0 without rows
x_score(celeb_x) ==
    IF celeb_x = <<>> THEN RInt(0)
    ELSE RMin(RMul(engagement_rate(celeb_x), RInt(20)), RInt(100))

\* celeb_x['has_product_mention'].sum()
product_mentions(celeb_x) ==
    SumSeq([i \in 1..Len(celeb_x) |->
               IF celeb_x[i].has_product_mention THEN 1 ELSE 0])

\* ---- YouTube metrics, lines 106-117 ----

\* celeb_yt['views'].sum()
total_views(celeb_yt) == SumSeq([i \in 1..Len(celeb_yt) |-> celeb_yt[i].views])

\* a variant taking the views of the first video only
yt_score_first_video(celeb_yt) ==
    IF celeb_yt = <<>> THEN RInt(0)
    ELSE RMin(RMul(Rat(celeb_yt[1].views, 1000000), RInt(10)), RInt(100))

\* min(total_views / 1_000_000 * 10, 100), 0 without rows
yt_score(celeb_yt) ==
    IF celeb_yt = <<>> THEN RInt(0)
    ELSE RMin(RMul(Rat(total_views(celeb_yt), 1000000), RInt(10)), RInt(100))

\* ---- chart metrics, lines 123-188 ----

\* the per-chart ceilings handed to position_to_score, lines 145-148
SpotifyMax == 200
Hot100Max == 100
Billboard200Max == 200
MelonMax == 100

\* the weights appended to chart_weights, lines 155-170, in hundredths
SpotifyWeight == 40
Hot100Weight == 30
Billboard200Weight == 15
MelonWeight == 15

\* a variant counting Melon for every category
chart_parts_ungated(row, cat) ==
    LET spotify_score == position_to_score(row.spotify_position, SpotifyMax)
        billboard_hot100_score == position_to_score(row.billboard_hot100, Hot100Max)
        billboard_200_score == position_to_score(row.billboard_200, Billboard200Max)
        melon_score == position_to_score(row.melon_position, MelonMax)
    IN  (IF spotify_score > 0 THEN <<[w |-> SpotifyWeight, s |-> spotify_score]>> ELSE <<>>)
        \o (IF billboard_hot100_score > 0
               THEN <<[w |-> Hot100Weight, s |-> billboard_hot100_score]>> ELSE <<>>)
        \o (IF billboard_200_score > 0
               THEN <<[w |-> Billboard200Weight, s |-> billboard_200_score]>> ELSE <<>>)
        \o (IF melon_score > 0
               THEN <<[w |-> MelonWeight, s |-> melon_score]>> ELSE <<>>)

\* the (weight, score) pairs appended to chart_weights / chart_scores, in the
\* order of lines 155-170; row is celeb_chart.iloc[0]
chart_parts(row, cat) ==
    LET spotify_score == position_to_score(row.spotify_position, SpotifyMax)
        billboard_hot100_score == position_to_score(row.billboard_hot100, Hot100Max)
        billboard_200_score == position_to_score(row.billboard_200, Billboard200Max)
        melon_score == position_to_score(row.melon_position, MelonMax)
    IN  (IF spotify_score > 0 THEN <<[w |-> SpotifyWeight, s |-> spotify_score]>> ELSE <<>>)
        \o (IF billboard_hot100_score > 0
               THEN <<[w |-> Hot100Weight, s |-> billboard_hot100_score]>> ELSE <<>>)
        \o (IF billboard_200_score > 0
               THEN <<[w |-> Billboard200Weight, s |-> billboard_200_score]>> ELSE <<>>)
        \o (IF cat = "K-pop" /\ melon_score > 0
               THEN <<[w |-> MelonWeight, s |-> melon_score]>> ELSE <<>>)

\* a variant that does not divide by total_weight
weighted_average_unnormalized(parts) ==
    IF parts = <<>> THEN RInt(0)
    ELSE Rat(SumSeq([i \in 1..Len(parts) |-> parts[i].w * parts[i].s]), 100)

\* sum(w * s for w, s in zip(chart_weights, chart_scores)) / total_weight,
\* 0 when chart_weights is empty; the weights are w / 100
weighted_average(parts) ==
    IF parts = <<>> THEN RInt(0)
    ELSE RDiv(Rat(SumSeq([i \in 1..Len(parts) |-> parts[i].w * parts[i].s]), 100),
              Rat(SumSeq([i \in 1..Len(parts) |-> parts[i].w]), 100))

\* chart_score of one person: 0 without a chart row
chart_score(celeb_chart, cat) ==
    IF celeb_chart = <<>> THEN RInt(0)
    ELSE weighted_average(chart_parts(celeb_chart[1], cat))

\* best_position, lines 180-183: the lowest non-missing position, <<>> if none
best_position(celeb_chart) ==
    IF celeb_chart = <<>> THEN <<>>
    ELSE LET row == celeb_chart[1]
             present == {q \in {row.spotify_position, row.billboard_hot100,
                                row.billboard_200, row.melon_position} : q # <<>>}
         IN  IF present = {} THEN <<>>
             ELSE CHOOSE q \in present : \A o \in present : q[1] <= o[1]

\* ---- final weighted score, line 195 ----

\* a variant weighting 60/40 for a person whose chart component is 0
signal_score_regime_per_person(xs, ys, cs) ==
    IF cs.n = 0
        THEN RAdd(RMul(Rat(6, 10), xs), RMul(Rat(4, 10), ys))
        ELSE RAdd(RAdd(RMul(Rat(3, 10), xs), RMul(Rat(2, 10), ys)), RMul(Rat(5, 10), cs))

\* (0.3 * x_score) + (0.2 * yt_score) + (0.5 * chart_score)
signal_score(xs, ys, cs) ==
    RAdd(RAdd(RMul(Rat(3, 10), xs), RMul(Rat(2, 10), ys)), RMul(Rat(5, 10), cs))

\* the dict appended to scores, lines 198-209
score_row(x, yt, chart, celebrity) ==
    LET cat == category(x, yt, chart, celebrity)
        celeb_x == celeb_rows(x, celebrity)
        celeb_yt == celeb_rows(yt, celebrity)
        celeb_chart == celeb_rows(chart_rows(chart), celebrity)
        xs == x_score(celeb_x)
        ys == yt_score(celeb_yt)
        cs == chart_score(celeb_chart, cat)
    IN  [celebrity |-> celebrity,
         category |-> cat,
         signal_score |-> Round1(signal_score(xs, ys, cs)),
         x_engagement_rate |-> Round3(engagement_rate(celeb_x)),
         youtube_views |-> total_views(celeb_yt),
         chart_position |-> best_position(celeb_chart),
         product_mentions |-> product_mentions(celeb_x),
         x_component |-> Round1(xs),
         yt_component |-> Round1(ys),
         chart_component |-> Round1(cs)]

\* scores after the loop over all_celebs, lines 66-209
scores(x, yt, chart) ==
    {score_row(x, yt, chart, c) : c \in all_celebs(x, yt, chart)}

\* a variant sorting ascending
sort_values_ascending(rows) ==
    {s \in [1..Cardinality(rows) -> rows] :
        /\ \A i, j \in 1..Cardinality(rows) : i # j => s[i] # s[j]
        /\ \A i, j \in 1..Cardinality(rows) :
              i < j => RLe(s[i].signal_score, s[j].signal_score)}

\* pd.DataFrame(scores).sort_values('signal_score', ascending=False): every
\* ordering of the rows by signal_score descending (the loop runs over a set
\* and the sort is not stable, so rows of equal score come in any order)
sort_values(rows) ==
    {s \in [1..Cardinality(rows) -> rows] :
        /\ \A i, j \in 1..Cardinality(rows) : i # j => s[i] # s[j]
        /\ \A i, j \in 1..Cardinality(rows) :
              i < j => RLe(s[j].signal_score, s[i].signal_score)}

\* The outcomes of one call: with no person in any batch, scores is [] and
\* pd.DataFrame([]) has no 'signal_score' column, so sort_values raises
\* KeyError (line 212); otherwise the sorted frame is returned (line 214).
calculate_signal_score(x, yt, chart) ==
    IF scores(x, yt, chart) = {}
        THEN {[raised |-> TRUE, rows |-> <<>>]}
        ELSE {[raised |-> FALSE, rows |-> s] : s \in sort_values(scores(x, yt, chart))}

----------------------------------------------------------------------------
(* The inputs: bounded batches of rows.                                    *)

\* at most this many rows over the three batches of one run
MaxRows == 2

Celebs == {"Lisa", "Drake"}

Categories == {"K-pop", "Western"}

\* (engagement, follower_count, has_product_mention) of a social row
SocialSamples ==
    {[engagement |-> 1000, follower_count |-> 1000000, has_product_mention |-> FALSE],
     [engagement |-> 50000, follower_count |-> 1000000, has_product_mention |-> TRUE],
     [engagement |-> 80000, follower_count |-> 1000000, has_product_mention |-> FALSE],
     [engagement |-> 50000, follower_count |-> 0, has_product_mention |-> FALSE]}

\* views of a video row
ViewSamples == {250000, 5000000, 12000000}

\* (spotify_position, billboard_hot100, billboard_200, melon_position)
ChartSamples ==
    {<< <<1>>, <<>>, <<>>, <<>> >>,
     << <<>>, <<>>, <<>>, <<1>> >>,
     << <<150>>, <<50>>, <<201>>, <<100>> >>,
     << <<10>>, <<20>>, <<30>>, <<40>> >>,
     << <<0>>, <<>>, <<>>, <<>> >>,
     << <<>>, <<>>, <<>>, <<>> >>}

SocialRows ==
    {[celebrity |-> c, category |-> k, engagement |-> v.engagement,
      follower_count |-> v.follower_count,
      has_product_mention |-> v.has_product_mention] :
        c \in Celebs, k \in Categories, v \in SocialSamples}

VideoRows ==
    {[celebrity |-> c, category |-> k, views |-> v] :
        c \in Celebs, k \in Categories, v \in ViewSamples}

ChartRows ==
    {[celebrity |-> c, category |-> k, spotify_position |-> v[1],
      billboard_hot100 |-> v[2], billboard_200 |-> v[3], melon_position |-> v[4]] :
        c \in Celebs, k \in Categories, v \in ChartSamples}

SeqsUpTo(S, n) == UNION {[1..k -> S] : k \in 0..n}

\* the sentinel values of the position_to_score variables while unused
Idle == <<>>

InitScorer ==
    /\ x_df \in SeqsUpTo(SocialRows, MaxRows)
    /\ yt_df \in SeqsUpTo(VideoRows, MaxRows - Len(x_df))
    /\ chart_df \in {[none |-> TRUE, rows |-> <<>>]}
          \cup {[none |-> FALSE, rows |-> r] :
                  r \in SeqsUpTo(ChartRows, MaxRows - Len(x_df) - Len(yt_df))}
    /\ pc = "input"
    /\ results = <<>>
    /\ position = Idle
    /\ max_position = 0
    /\ pos_score = Idle
    /\ IdleNormalize
    /\ IdleStore
    /\ IdleOther

\* a direct call calculate_signal_score(x_df, yt_df, chart_df)
Calculate ==
    /\ pc = "input"
    /\ \E out \in calculate_signal_score(x_df, yt_df, chart_df) :
          /\ pc' = IF out.raised THEN "raised" ELSE "done"
          /\ results' = out.rows
    /\ UNCHANGED <<x_df, yt_df, chart_df, position, max_position, pos_score>>
    /\ UNCHANGED <<normalizeVars, storeVars, otherVars>>

\* update_data.main, lines 101-143: return early when both collectors came
\* back empty, else rankings = calculate_signal_score(x_df, yt_df,
\* chart_df if not chart_df.empty else None)
Main ==
    /\ pc = "input"
    /\ IF x_df = <<>> /\ yt_df = <<>>
          THEN /\ pc' = "returned"
               /\ results' = <<>>
          ELSE \E out \in calculate_signal_score(x_df, yt_df,
                              IF chart_rows(chart_df) = <<>>
                                  THEN [none |-> TRUE, rows |-> <<>>]
                                  ELSE chart_df) :
                  /\ pc' = IF out.raised THEN "raised" ELSE "done"
                  /\ results' = out.rows
    /\ UNCHANGED <<x_df, yt_df, chart_df, position, max_position, pos_score>>
    /\ UNCHANGED <<normalizeVars, storeVars, otherVars>>

Init == InitScorer

Next == Calculate \/ Main

Spec == Init /\ [][Next]_vars

----------------------------------------------------------------------------
(* position_to_score on its own: one call with any rank and any of the     *)
(* ceilings the scorer passes.                                             *)

\* ranks from -NegRanks to MaxRank are tried
NegRanks == 3
MaxRank == 203

Ceilings == {SpotifyMax, Hot100Max, Billboard200Max, MelonMax}

InitPosition ==
    /\ position \in {<<>>} \cup {<<r>> : r \in (0 - NegRanks)..MaxRank}
    /\ max_position \in Ceilings
    /\ pos_score = Idle
    /\ pc = "input"
    /\ x_df = <<>>
    /\ yt_df = <<>>
    /\ chart_df = [none |-> TRUE, rows |-> <<>>]
    /\ results = <<>>
    /\ IdleNormalize
    /\ IdleStore
    /\ IdleOther

\* pos_score = position_to_score(position, max_position)
ScorePosition ==
    /\ pc = "input"
    /\ pos_score' = <<position_to_score(position, max_position)>>
    /\ pc' = "done"
    /\ UNCHANGED <<x_df, yt_df, chart_df, results, position, max_position>>
    /\ UNCHANGED <<normalizeVars, storeVars, otherVars>>

SpecPosition == InitPosition /\ [][ScorePosition]_vars

----------------------------------------------------------------------------
(* normalize_value, signal_app/metrics.py.  None is <<>>, a number n is    *)
(* <<n>>, a text t is <<t>>.                                               *)

BRAND_TIER_ORDER ==
    ("Global Ambassador" :> 1) @@ ("Ambassador" :> 2)
        @@ ("House Friend" :> 3) @@ ("Appearance" :> 4)

\* Python's truth value of value_text: None and "" are false
Truthy(value_text) == value_text # <<>> /\ value_text # <<"">>

\* BRAND_TIER_ORDER.get(value_text, None)
tier_get(value_text) ==
    IF value_text[1] \in DOMAIN BRAND_TIER_ORDER
        THEN <<BRAND_TIER_ORDER[value_text[1]]>>
        ELSE <<>>

\* a variant falling back to value_num for an unknown tier
normalize_value_default_num(metric_key, value_num, value_text) ==
    IF metric_key = "brand_tier" /\ Truthy(value_text)
        THEN <<IF tier_get(value_text) = <<>> THEN value_num ELSE tier_get(value_text),
               value_text>>
        ELSE <<value_num, value_text>>

normalize_value(metric_key, value_num, value_text) ==
    IF metric_key = "brand_tier" /\ Truthy(value_text)
        THEN <<tier_get(value_text), value_text>>
        ELSE <<value_num, value_text>>

NormalizeMetricKeys == {"brand_tier", "lastfm_listeners", "realtime_pos_sales"}

NormalizeNums == {<<>>, <<0>>, <<2>>, <<7>>}

NormalizeTexts ==
    {<<>>, <<"">>, <<"Global Ambassador">>, <<"Ambassador">>, <<"House Friend">>,
     <<"Appearance">>, <<"Muse">>, <<"ambassador">>}

InitNormalize ==
    /\ nv_args \in {<<k, n, t>> :
                      k \in NormalizeMetricKeys, n \in NormalizeNums, t \in NormalizeTexts}
    /\ nv_result = <<>>
    /\ pc = "input"
    /\ x_df = <<>>
    /\ yt_df = <<>>
    /\ chart_df = [none |-> TRUE, rows |-> <<>>]
    /\ results = <<>>
    /\ position = Idle
    /\ max_position = 0
    /\ pos_score = Idle
    /\ IdleStore
    /\ IdleOther

\* nv_result = normalize_value(metric_key, value_num, value_text)
Normalize ==
    /\ pc = "input"
    /\ nv_result' = normalize_value(nv_args[1], nv_args[2], nv_args[3])
    /\ pc' = "done"
    /\ UNCHANGED <<x_df, yt_df, chart_df, results, position, max_position, pos_score,
                   nv_args, storeVars, otherVars>>

SpecNormalize == InitNormalize /\ [][Normalize]_vars

----------------------------------------------------------------------------
(* The observation store: app/db.py, app/ingest.py, signal_app/ingest.py.  *)
(* A Person row is [id, person_key, display_name, category, country], an   *)
(* Observation row [person_id, metric_key, date, value_num, value_text,    *)
(* raw_json]; None is <<>>, a present value v is <<v>>; dates are day      *)
(* numbers.                                                                 *)

\* date.today()
Today == 3

MaxOf(S) == CHOOSE m \in S : \A n \in S : n <= m

\* the columns of uniq_person_metric_date
KeyOf(o) == <<o.person_id, o.metric_key, o.date>>

\* the id SQLite gives the next inserted row
NextId(table) == IF table = {} THEN 1 ELSE MaxOf({p.id : p \in table}) + 1

\* people_map = {p.person_key: p for p in session.query(Person).all()}
people_map(table) ==
    [k \in {p.person_key : p \in table} |-> CHOOSE p \in table : p.person_key = k]

\* value.lower() stripped of its non-alphanumeric characters, tabulated over
\* the tags, display names and person keys of the inputs
_normalize_key(value) ==
    CASE value \in {"BTS", "bts", "bts_"} -> "bts"
      [] value \in {"Bangtan"} -> "bangtan"
      [] value \in {"Lisa", "lisa"} -> "lisa"
      [] value \in {"lalisa"} -> "lalisa"
      [] value \in {"IVE", "ive"} -> "ive"

\* INSERT of the pending rows, one by one, under uniq_person_metric_date
RECURSIVE InsertAll(_, _)
InsertAll(db, pending) ==
    IF pending = <<>>
        THEN [ok |-> TRUE, db |-> db]
        ELSE IF \E o \in db : KeyOf(o) = KeyOf(Head(pending))
                 THEN [ok |-> FALSE, db |-> db]
                 ELSE InsertAll(db \cup {Head(pending)}, Tail(pending))

\* a session on the observations table: the rows its transaction sees, the
\* objects added and not yet flushed, and whether a flush has raised
new_session(table) == [db |-> table, pending |-> <<>>, ok |-> TRUE]

session_flush(s) ==
    LET r == InsertAll(s.db, s.pending)
    IN  [db |-> r.db, pending |-> <<>>, ok |-> s.ok /\ r.ok]

\* a variant deleting the person's rows of the metric on every date
session_delete_any_date(s, key) ==
    LET f == session_flush(s)
    IN  [f EXCEPT !.db = {o \in f.db : <<o.person_id, o.metric_key>> # <<key[1], key[2]>>}]

\* session.execute(delete(Observation).where(person_id, metric_key, date)):
\* the session autoflushes, then the DELETE runs
session_delete(s, key) ==
    LET f == session_flush(s)
    IN  [f EXCEPT !.db = {o \in f.db : KeyOf(o) # key}]

session_add(s, row) == [s EXCEPT !.pending = Append(@, row)]

\* a variant writing a row only when its key is not stored yet
RECURSIVE replace_all_keep_existing(_, _)
replace_all_keep_existing(s, rows) ==
    IF rows = <<>>
        THEN s
        ELSE replace_all_keep_existing(
                 IF \E o \in s.db : KeyOf(o) = KeyOf(Head(rows))
                     THEN s
                     ELSE session_add(s, Head(rows)),
                 Tail(rows))

\* the delete-then-add loop of run_lastfm_ingest and run_rss_ingest
RECURSIVE replace_all(_, _)
replace_all(s, rows) ==
    IF rows = <<>>
        THEN s
        ELSE replace_all(session_add(session_delete(s, KeyOf(Head(rows))), Head(rows)),
                         Tail(rows))

\* the session.add loop of run_demo_ingest
RECURSIVE add_all(_, _)
add_all(s, rows) ==
    IF rows = <<>> THEN s ELSE add_all(session_add(s, Head(rows)), Tail(rows))

\* the observations table after session.commit(), when the flush succeeds
session_commit(s) == session_flush(s)

\* a Person built from a watchlist entry
PersonOf(id, entry) ==
    [id |-> id, person_key |-> entry.person_key, display_name |-> entry.display_name,
     category |-> entry.category, country |-> entry.country]

\* _seed_people: [ok, people]; ok is FALSE when the commit raises
\* IntegrityError on people.person_key
_seed_people(table, wl) ==
    LET existing == {p.person_key : p \in table}
        listed == {wl[i].person_key : i \in DOMAIN wl}
        last(k) == wl[MaxOf({i \in DOMAIN wl : wl[i].person_key = k})]
        updated == {IF p.person_key \in listed THEN PersonOf(p.id, last(p.person_key)) ELSE p :
                        p \in table}
        added == SelectSeq(wl, LAMBDA e : e.person_key \notin existing)
        conflict == \E i, j \in DOMAIN added : i < j /\ added[i].person_key = added[j].person_key
        inserted == {PersonOf(NextId(table) + i - 1, added[i]) : i \in DOMAIN added}
    IN  IF conflict
            THEN [ok |-> FALSE, people |-> table]
            ELSE [ok |-> TRUE, people |-> updated \cup inserted]

\* _ensure_person: the people table after the call
_ensure_person(table, person_key, display_name) ==
    IF person_key \in DOMAIN people_map(table)
        THEN table
        ELSE table \cup {[id |-> NextId(table), person_key |-> person_key,
                          display_name |-> display_name, category |-> <<"Unknown">>,
                          country |-> <<>>]}

\* an Observation as the passes build it (pillar, source and unit are copied
\* from the metric definition and left out)
ObservationOf(person_id, metric_key, date, normalized, provenance) ==
    [person_id |-> person_id, metric_key |-> metric_key, date |-> date,
     value_num |-> normalized[1], value_text |-> normalized[2], raw_json |-> provenance]

\* what a pass hands back: the two tables as committed, how it ended
\* ("ok" or the exception that reached the caller) and its return value
PassResult(table, obs, outcome, result) ==
    [people |-> table, observations |-> obs, outcome |-> outcome, result |-> result]

\* fetch_artist_stats: None, a raise_for_status failure, or the two counters
NoStats == [status |-> "none"]

HTTPError == [status |-> "HTTPError"]

Stats(listeners, playcount) ==
    [status |-> "ok", listeners |-> listeners, playcount |-> playcount]

\* the rows the watchlist loop of run_lastfm_ingest writes, and whether
\* fetch_artist_stats raised on the way
RECURSIVE lastfm_rows(_, _, _, _)
lastfm_rows(pmap, metric_defs, wl, api) ==
    IF wl = <<>>
        THEN [raised |-> FALSE, rows |-> <<>>]
        ELSE LET person == Head(wl)
                 stats == api[person.display_name]
                 row(key, value) ==
                     ObservationOf(pmap[person.person_key].id, key, Today,
                                   normalize_value(key, <<value>>, <<>>), "lastfm")
                 mine == IF stats.status = "none"
                             THEN <<>>
                             ELSE SelectSeq(<<row("lastfm_listeners", stats.listeners),
                                              row("lastfm_playcount", stats.playcount)>>,
                                            LAMBDA o : o.metric_key \in metric_defs)
                 rest == lastfm_rows(pmap, metric_defs, Tail(wl), api)
             IN  IF stats.status = "HTTPError"
                     THEN [raised |-> TRUE, rows |-> <<>>]
                     ELSE [raised |-> rest.raised, rows |-> mine \o rest.rows]

run_lastfm_ingest(table, obs, mets, wl, api) ==
    LET seeded == _seed_people(table, wl)
        metric_defs == {"lastfm_listeners", "lastfm_playcount"} \cap DOMAIN mets
        loop == lastfm_rows(people_map(seeded.people), metric_defs, wl, api)
        s == replace_all(new_session(obs), loop.rows)
        committed == session_commit(s)
    IN  CASE ~seeded.ok -> PassResult(table, obs, "IntegrityError(people.person_key)", 0)
          [] seeded.ok /\ metric_defs = {} -> PassResult(seeded.people, obs, "ok", 0)
          [] seeded.ok /\ metric_defs # {} /\ ~s.ok ->
                 PassResult(seeded.people, obs, "IntegrityError(uniq_person_metric_date)", 0)
          [] seeded.ok /\ metric_defs # {} /\ s.ok /\ loop.raised ->
                 PassResult(seeded.people, obs, "HTTPError", 0)
          [] seeded.ok /\ metric_defs # {} /\ s.ok /\ ~loop.raised /\ ~committed.ok ->
                 PassResult(seeded.people, obs, "IntegrityError(uniq_person_metric_date)", 0)
          [] OTHER -> PassResult(seeded.people, committed.db, "ok", Len(loop.rows))

\* person_lookup of run_rss_ingest: normalized display name and normalized
\* person key of every watchlist entry, later entries overwriting earlier
RECURSIVE person_lookup(_)
person_lookup(wl) ==
    IF wl = <<>>
        THEN <<>>
        ELSE LET person == wl[Len(wl)]
             IN  (_normalize_key(person.person_key) :> person.person_key)
                     @@ (_normalize_key(person.display_name) :> person.person_key)
                     @@ person_lookup(SubSeq(wl, 1, Len(wl) - 1))

\* a variant keeping the larger value whatever the directionality
reconcile_always_max(directionality, current, value_num) ==
    IF current < value_num THEN value_num ELSE current

\* min(current, value_num) for lower_is_better, max otherwise
reconcile(directionality, current, value_num) ==
    IF directionality = "lower_is_better"
        THEN IF value_num < current THEN value_num ELSE current
        ELSE IF current < value_num THEN value_num ELSE current

\* the entry loop of run_rss_ingest: the people table, the keys of the
\* observations dict in insertion order, and its value_num per key
RECURSIVE fold_entries(_, _, _, _)
fold_entries(acc, mets, lookup, entries) ==
    IF entries = <<>>
        THEN acc
        ELSE LET entry == Head(entries)
                 normalized_tag == _normalize_key(entry.tag)
                 person_key == IF normalized_tag \in DOMAIN lookup
                                   THEN lookup[normalized_tag]
                                   ELSE normalized_tag
                 table == _ensure_person(acc.people, person_key, entry.tag)
                 person == people_map(table)[person_key]
                 key == <<person.id, entry.metric_key, entry.date>>
                 seen == key \in DOMAIN acc.data
                 value_num == IF seen
                                  THEN reconcile(mets[entry.metric_key].directionality,
                                                 acc.data[key], entry.value_num)
                                  ELSE entry.value_num
             IN  IF entry.metric_key \notin DOMAIN mets
                     THEN fold_entries(acc, mets, lookup, Tail(entries))
                     ELSE fold_entries(
                              [people |-> table,
                               keys |-> IF seen THEN acc.keys ELSE Append(acc.keys, key),
                               data |-> (key :> value_num) @@ acc.data],
                              mets, lookup, Tail(entries))

\* a source whose fetch (or CSV read) failed inside _fetch_rss_items, and one
\* whose items parse_items turned into entries [tag, metric_key, date,
\* value_num]
FetchError == [error |-> TRUE, parsed |-> <<>>]

Feed(parsed) == [error |-> FALSE, parsed |-> parsed]

\* a CSV source with an empty Title cell: the item's title is NaN, and
\* parse_items raises TypeError on it, outside every try block
ParseCrash == [error |-> FALSE, parsed |-> <<>>, raises |-> "TypeError"]

Crashed(fetch) == "raises" \in DOMAIN fetch

\* a variant leaving the source loop at the first failed fetch
RECURSIVE parsed_entries_until_error(_)
parsed_entries_until_error(fetches) ==
    IF fetches = <<>> \/ Crashed(Head(fetches)) \/ Head(fetches).error
        THEN <<>>
        ELSE Head(fetches).parsed \o parsed_entries_until_error(Tail(fetches))

\* the entries of the sources that answered, in source order, up to the
\* source on which parse_items raises, if any
RECURSIVE parsed_entries(_)
parsed_entries(fetches) ==
    IF fetches = <<>> \/ Crashed(Head(fetches))
        THEN <<>>
        ELSE (IF Head(fetches).error THEN <<>> ELSE Head(fetches).parsed)
                 \o parsed_entries(Tail(fetches))

run_rss_ingest(table, obs, mets, wl, fetches) ==
    LET seeded == _seed_people(table, wl)
        folded == fold_entries([people |-> seeded.people, keys |-> <<>>, data |-> <<>>],
                               mets, person_lookup(wl), parsed_entries(fetches))
        rows == [i \in DOMAIN folded.keys |->
                    ObservationOf(folded.keys[i][1], folded.keys[i][2], folded.keys[i][3],
                                  << <<folded.data[folded.keys[i]]>>, <<>> >>, "rss")]
        committed == session_commit(replace_all(new_session(obs), rows))
        report(written) ==
            [parsed |-> Len(parsed_entries(fetches)), observations |-> written,
             errors |-> Cardinality({i \in DOMAIN fetches : fetches[i].error})]
    IN  CASE ~seeded.ok ->
                 PassResult(table, obs, "IntegrityError(people.person_key)", report(0))
          [] seeded.ok /\ (\E i \in DOMAIN fetches : Crashed(fetches[i])) ->
                 PassResult(folded.people, obs, "TypeError", report(0))
          [] seeded.ok /\ (\A i \in DOMAIN fetches : ~Crashed(fetches[i])) /\ ~committed.ok ->
                 PassResult(folded.people, obs, "IntegrityError(uniq_person_metric_date)",
                            report(0))
          [] OTHER -> PassResult(folded.people, committed.db, "ok", report(Len(rows)))

\* load_demo_observations: the rows of the file, their dates shifted so
\* that the latest is today
load_demo_observations(file, today) ==
    IF file = <<>>
        THEN file
        ELSE LET offset == today - MaxOf({file[i].date : i \in DOMAIN file})
             IN  [i \in DOMAIN file |-> [file[i] EXCEPT !.date = @ + offset]]

run_demo_ingest(table, obs, mets, wl, file) ==
    LET seeded == _seed_people(table, wl)
        demo_df == load_demo_observations(file, Today)
        pmap == people_map(seeded.people)
        kept == SelectSeq(demo_df, LAMBDA row : /\ row.metric_key \in DOMAIN mets
                                                 /\ row.person_key \in DOMAIN pmap)
        rows == [i \in DOMAIN kept |->
                    ObservationOf(pmap[kept[i].person_key].id, kept[i].metric_key,
                                  kept[i].date,
                                  normalize_value(kept[i].metric_key, kept[i].value_num,
                                                  kept[i].value_text),
                                  "demo")]
        committed == session_commit(add_all(new_session({}), rows))
    IN  CASE ~seeded.ok -> PassResult(table, obs, "IntegrityError(people.person_key)", 0)
          [] seeded.ok /\ ~committed.ok ->
                 PassResult(seeded.people, {}, "IntegrityError(uniq_person_metric_date)", 0)
          [] OTHER -> PassResult(seeded.people, committed.db, "ok", Len(rows))

\* the inputs of the passes: configuration files, API answers, feeds and
\* demo files

MaxPasses == 2

MetricDef(directionality) == [directionality |-> directionality]

MetricsConfigs ==
    {("realtime_pos_sales" :> MetricDef("higher_is_better"))
         @@ ("chodong_first_week" :> MetricDef("higher_is_better"))
         @@ ("lastfm_listeners" :> MetricDef("higher_is_better"))
         @@ ("lastfm_playcount" :> MetricDef("higher_is_better"))
         @@ ("brand_tier" :> MetricDef("lower_is_better")),
     ("realtime_pos_sales" :> MetricDef("lower_is_better"))
         @@ ("lastfm_listeners" :> MetricDef("higher_is_better"))
         @@ ("brand_tier" :> MetricDef("lower_is_better")),
     ("realtime_pos_sales" :> MetricDef("lower_is_better"))
         @@ ("brand_tier" :> MetricDef("lower_is_better"))}

WatchlistEntry(person_key, display_name, country) ==
    [person_key |-> person_key, display_name |-> display_name,
     category |-> <<"K-pop">>, country |-> <<country>>]

Watchlists ==
    {<<WatchlistEntry("bts", "BTS", "KR"), WatchlistEntry("lalisa", "Lisa", "TH")>>,
     <<WatchlistEntry("bts", "Bangtan", "KR")>>,
     <<WatchlistEntry("bts", "BTS", "KR"), WatchlistEntry("bts", "Bangtan", "US")>>}

LastfmApis ==
    {[name \in {"BTS", "Bangtan", "Lisa"} |-> NoStats],
     ("BTS" :> Stats(10, 20)) @@ ("Bangtan" :> Stats(30, 5)) @@ ("Lisa" :> Stats(7, 8)),
     ("BTS" :> Stats(30, 5)) @@ ("Bangtan" :> Stats(10, 20)) @@ ("Lisa" :> NoStats),
     ("BTS" :> Stats(10, 20)) @@ ("Bangtan" :> HTTPError) @@ ("Lisa" :> HTTPError)}

RssEntry(tag, metric_key, date, value_num) ==
    [tag |-> tag, metric_key |-> metric_key, date |-> date, value_num |-> value_num]

RssFetches ==
    {<<Feed(<<RssEntry("BTS", "realtime_pos_sales", Today, 5),
              RssEntry("bts_", "realtime_pos_sales", Today, 3)>>)>>,
     <<Feed(<<RssEntry("BTS", "realtime_pos_sales", Today, 3)>>),
       Feed(<<RssEntry("BTS", "realtime_pos_sales", Today, 5)>>)>>,
     <<Feed(<<RssEntry("BTS", "realtime_pos_sales", Today, 4)>>)>>,
     <<FetchError,
       Feed(<<RssEntry("IVE", "realtime_pos_sales", Today, 7),
              RssEntry("Lisa", "chodong_first_week", Today, 9)>>)>>,
     <<Feed(<<RssEntry("BTS", "realtime_pos_sales", Today - 1, 6),
              RssEntry("BTS", "realtime_pos_sales", Today, 2),
              RssEntry("BTS", "realtime_pos_sales", Today, 8)>>)>>,
     <<Feed(<<RssEntry("IVE", "realtime_pos_sales", Today, 7)>>),
       ParseCrash,
       Feed(<<RssEntry("BTS", "realtime_pos_sales", Today, 9)>>)>>,
     <<Feed(<<>>)>>}

DemoRow(person_key, metric_key, date, value_num, value_text) ==
    [person_key |-> person_key, metric_key |-> metric_key, date |-> date,
     value_num |-> value_num, value_text |-> value_text]

DemoFiles ==
    {<<>>,
     <<DemoRow("bts", "realtime_pos_sales", 1, <<5>>, <<>>),
       DemoRow("bts", "realtime_pos_sales", 2, <<3>>, <<>>)>>,
     <<DemoRow("bts", "realtime_pos_sales", 2, <<5>>, <<>>),
       DemoRow("bts", "realtime_pos_sales", 2, <<3>>, <<>>)>>,
     <<DemoRow("bts", "brand_tier", 1, <<>>, <<"Ambassador">>),
       DemoRow("lalisa", "realtime_pos_sales", 1, <<4>>, <<>>),
       DemoRow("ive", "realtime_pos_sales", 1, <<1>>, <<>>),
       DemoRow("bts", "chodong_first_week", 1, <<9>>, <<>>)>>}

\* an empty database and the configuration files
InitStore ==
    /\ people = {}
    /\ observations = {}
    /\ metrics \in MetricsConfigs
    /\ watchlist \in Watchlists
    /\ work = 0
    /\ last_pass = NoPass
    /\ pc = "idle"
    /\ x_df = <<>>
    /\ yt_df = <<>>
    /\ chart_df = [none |-> TRUE, rows |-> <<>>]
    /\ results = <<>>
    /\ position = Idle
    /\ max_position = 0
    /\ pos_score = Idle
    /\ IdleNormalize
    /\ IdleOther

\* the record of a pass: what it was given, the two tables before it, how
\* it ended, and whether it repeats the pass before it on the same input
PassRecord(kind, input, r) ==
    [kind |-> kind, watchlist |-> watchlist, input |-> input, before |-> observations,
     registry |-> people, outcome |-> r.outcome, result |-> r.result,
     repeat |-> /\ last_pass.kind = kind
                /\ last_pass.watchlist = watchlist
                /\ last_pass.input = input]

Ran(kind, input, r) ==
    /\ people' = r.people
    /\ observations' = r.observations
    /\ last_pass' = PassRecord(kind, input, r)
    /\ work' = work + 1
    /\ UNCHANGED <<metrics, watchlist>>
    /\ UNCHANGED <<x_df, yt_df, chart_df, pc, results, position, max_position, pos_score>>
    /\ UNCHANGED <<normalizeVars, otherVars>>

RunDemoIngest ==
    /\ work < MaxPasses
    /\ \E file \in DemoFiles :
           Ran("demo", file, run_demo_ingest(people, observations, metrics, watchlist, file))

RunLastfmIngest ==
    /\ work < MaxPasses
    /\ \E api \in LastfmApis :
           Ran("lastfm", api, run_lastfm_ingest(people, observations, metrics, watchlist, api))

RunRssIngest ==
    /\ work < MaxPasses
    /\ \E fetches \in RssFetches :
           Ran("rss", fetches,
               run_rss_ingest(people, observations, metrics, watchlist, fetches))

\* watchlist.yml is edited between two passes
EditWatchlist ==
    /\ watchlist' \in Watchlists \ {watchlist}
    /\ UNCHANGED <<people, observations, metrics, work, last_pass>>
    /\ UNCHANGED <<x_df, yt_df, chart_df, pc, results, position, max_position, pos_score>>
    /\ UNCHANGED <<normalizeVars, otherVars>>

NextStore == RunDemoIngest \/ RunLastfmIngest \/ RunRssIngest \/ EditWatchlist

SpecStore == InitStore /\ [][NextStore]_vars

----------------------------------------------------------------------------
(* Concurrent passes on the SQLite store, app/db.py get_engine.  SQLite    *)
(* has one write lock per database file: the first INSERT or DELETE of a   *)
(* transaction takes it, COMMIT or ROLLBACK gives it back, a statement     *)
(* that finds it taken waits and raises OperationalError ("database is     *)
(* locked") when the busy timeout runs out.  A SELECT on another           *)
(* connection reads the committed table.                                   *)

\* load_observations_df: the observations joined to their people; the set
\* of the frame's rows (pillar, source, unit come from metrics.yml and are
\* left out)
load_observations_df(table, obs) ==
    {[person_key |-> po[1].person_key, person |-> po[1].display_name,
      category |-> po[1].category, metric_key |-> po[2].metric_key,
      date |-> po[2].date, value_num |-> po[2].value_num,
      value_text |-> po[2].value_text] :
        po \in {qo \in table \X obs : qo[1].id = qo[2].person_id}}

\* the statements a pass sends to its session
Delete(key) == [op |-> "delete", key |-> key]
Add(row) == [op |-> "add", row |-> row]
DeleteAll == [op |-> "wipe"]
Commit == [op |-> "commit"]

\* run_lastfm_ingest and run_rss_ingest: delete and add per row, one commit
RECURSIVE replace_statements(_)
replace_statements(rows) ==
    IF rows = <<>>
        THEN <<Commit>>
        ELSE <<Delete(KeyOf(Head(rows))), Add(Head(rows))>> \o replace_statements(Tail(rows))

\* run_demo_ingest: delete everything, commit, add every row, commit
demo_statements(rows) ==
    <<DeleteAll, Commit>> \o [i \in DOMAIN rows |-> Add(rows[i])] \o <<Commit>>

\* session.execute(delete(Observation)): autoflush, then DELETE of all rows
session_delete_all(s) == [session_flush(s) EXCEPT !.db = {}]

\* does the statement send INSERT or DELETE to the database?
writes(s, st) ==
    \/ st.op \in {"delete", "wipe"}
    \/ st.op = "commit" /\ s.pending # <<>>

\* a variant in which DELETE removes nothing
execute_without_delete(s, st) ==
    CASE st.op = "delete" -> session_flush(s)
      [] st.op = "wipe" -> session_delete_all(s)
      [] st.op = "add" -> session_add(s, st.row)
      [] st.op = "commit" -> session_commit(s)

\* the session after the statement
execute(s, st) ==
    CASE st.op = "delete" -> session_delete(s, st.key)
      [] st.op = "wipe" -> session_delete_all(s)
      [] st.op = "add" -> session_add(s, st.row)
      [] st.op = "commit" -> session_commit(s)

\* the store of the race: two people, and at most the old row of the
\* contended key and a row of another date
RacePeople ==
    {PersonOf(1, WatchlistEntry("bts", "BTS", "KR")),
     PersonOf(2, WatchlistEntry("lalisa", "Lisa", "TH"))}

OldRow == ObservationOf(1, "realtime_pos_sales", Today, <<<<1>>, <<>>>>, "old")
OtherRow == ObservationOf(1, "realtime_pos_sales", Today - 1, <<<<2>>, <<>>>>, "old")

\* pass i writes value 10 * i to the contended key, and maybe a row of its own
NewRow(i) == ObservationOf(1, "realtime_pos_sales", Today, <<<<10 * i>>, <<>>>>, "new")
OwnRow(i) == ObservationOf(2, "realtime_pos_sales", Today, <<<<10 * i + 1>>, <<>>>>, "new")

RaceRows(i) == {<<NewRow(i)>>, <<NewRow(i), OwnRow(i)>>, <<OwnRow(i), NewRow(i)>>}

Writer(kind, rows) ==
    [kind |-> kind, rows |-> rows, state |-> "run", s |-> new_session({}),
     todo |-> IF kind = "demo" THEN demo_statements(rows) ELSE replace_statements(rows)]

\* reads of the concurrent reader
MaxReads == 2

InitRace ==
    /\ people = RacePeople
    /\ observations \in {{}, {OldRow}, {OldRow, OtherRow}}
    /\ writers \in {<<Writer(k[1], r[1]), Writer(k[2], r[2])>> :
                      k \in {<<"rss", "rss">>, <<"rss", "lastfm">>,
                             <<"demo", "rss">>, <<"demo", "demo">>},
                      r \in RaceRows(1) \X RaceRows(2)}
    /\ lock = 0
    /\ reads = <<>>
    /\ metrics = <<>>
    /\ watchlist = <<>>
    /\ work = 0
    /\ last_pass = NoPass
    /\ pc = "idle"
    /\ x_df = <<>>
    /\ yt_df = <<>>
    /\ chart_df = [none |-> TRUE, rows |-> <<>>]
    /\ results = <<>>
    /\ position = Idle
    /\ max_position = 0
    /\ pos_score = Idle
    /\ IdleNormalize
    /\ IdleQueries
    /\ IdleCollector

raceRest ==
    <<x_df, yt_df, chart_df, pc, results, position, max_position, pos_score,
      normalizeVars, people, metrics, watchlist, work, last_pass, queryVars,
      collectorVars>>

\* pass i runs its next statement; the transaction begins on the committed
\* table with the first statement that writes
Statement(i) ==
    LET w == writers[i]
        st == Head(w.todo)
        begun == IF lock = i THEN w.s ELSE [w.s EXCEPT !.db = observations]
        after == execute(begun, st)
        holds == lock = i \/ writes(w.s, st)
    IN  /\ w.state = "run"
        /\ writes(w.s, st) => lock \in {0, i}
        /\ IF ~after.ok
              THEN \* the flush raised IntegrityError: the pass ends, rollback
                   /\ writers' = [writers EXCEPT ![i].state = "IntegrityError",
                                                 ![i].s = new_session({})]
                   /\ lock' = 0
                   /\ UNCHANGED observations
              ELSE IF st.op = "commit"
                  THEN /\ observations' = IF holds THEN after.db ELSE observations
                       /\ lock' = IF holds THEN 0 ELSE lock
                       /\ writers' = [writers EXCEPT
                              ![i].s = new_session({}),
                              ![i].todo = Tail(@),
                              ![i].state = IF Tail(w.todo) = <<>> THEN "done" ELSE "run"]
                  ELSE /\ lock' = IF holds THEN i ELSE lock
                       /\ writers' = [writers EXCEPT ![i].s = after, ![i].todo = Tail(@)]
                       /\ UNCHANGED observations
        /\ UNCHANGED <<reads, raceRest>>

\* the busy timeout of pass i runs out while the other pass holds the lock
Busy(i) ==
    LET w == writers[i]
    IN  /\ w.state = "run"
        /\ writes(w.s, Head(w.todo))
        /\ lock \notin {0, i}
        /\ writers' = [writers EXCEPT ![i].state = "OperationalError",
                                      ![i].s = new_session({})]
        /\ UNCHANGED <<lock, observations, reads, raceRest>>

\* a reader loads the frame
Read ==
    /\ Len(reads) < MaxReads
    /\ reads' = Append(reads, load_observations_df(people, observations))
    /\ UNCHANGED <<lock, writers, observations, raceRest>>

NextRace == (\E i \in 1..2 : Statement(i)) \/ (\E i \in 1..2 : Busy(i)) \/ Read

SpecRace == InitRace /\ [][NextRace]_vars

----------------------------------------------------------------------------
(* The read queries, app/queries.py.  A frame is the set of its rows; NaN  *)
(* is <<>>.  sort_values("date") uses an unstable sort, so rows of equal   *)
(* date may come in any order: a query yields the set of the results it    *)
(* can give.                                                               *)

\* the orders df.sort_values("date") can give
sort_values_date(frame) ==
    {s \in [1..Cardinality(frame) -> frame] :
        /\ \A i, j \in DOMAIN s : i # j => s[i] # s[j]
        /\ \A i, j \in DOMAIN s : i < j => s[i].date <= s[j].date}

\* the rows of one group of groupby(["person", "metric_key"]), in order
group_of(sorted, row) ==
    SelectSeq(sorted, LAMBDA r : r.person = row.person /\ r.metric_key = row.metric_key)

\* grouped.tail(1): the last row of every group
tail_1(sorted) ==
    {r \in {sorted[i] : i \in DOMAIN sorted} :
        group_of(sorted, r)[Len(group_of(sorted, r))] = r}

\* grouped.nth(-2): the last but one row of every group of two rows or more
nth_minus_2(sorted) ==
    {r \in {sorted[i] : i \in DOMAIN sorted} :
        /\ Len(group_of(sorted, r)) >= 2
        /\ group_of(sorted, r)[Len(group_of(sorted, r)) - 1] = r}

\* a variant taking the first row of every group
latest_observations_head(frame) ==
    IF frame = {}
        THEN {frame}
        ELSE {{r \in frame : group_of(s, r)[1] = r} : s \in sort_values_date(frame)}

latest_observations(frame) ==
    IF frame = {}
        THEN {frame}
        ELSE {tail_1(s) : s \in sort_values_date(frame)}

\* float subtraction: NaN when an operand is NaN
Minus(a, b) == IF a = <<>> \/ b = <<>> THEN <<>> ELSE <<a[1] - b[1]>>

\* latest.merge(previous[[person, metric_key, value_num]], how="left",
\* suffixes=("", "_prev")) and the delta column
merge_delta(latest, previous) ==
    LET matches(l) == {p \in previous : p.person = l.person /\ p.metric_key = l.metric_key}
        joined(l, prev) ==
            [person_key |-> l.person_key, person |-> l.person, category |-> l.category,
             metric_key |-> l.metric_key, date |-> l.date, value_num |-> l.value_num,
             value_text |-> l.value_text, value_num_prev |-> prev,
             delta |-> Minus(l.value_num, prev)]
    IN  {joined(l, <<>>) : l \in {m \in latest : matches(m) = {}}}
            \cup {joined(lp[1], lp[2].value_num) :
                    lp \in {mp \in latest \X previous : mp[2] \in matches(mp[1])}}

\* a variant subtracting the latest value from the previous one
compute_latest_deltas_reversed(frame) ==
    IF frame = {}
        THEN {frame}
        ELSE {{[r EXCEPT !.delta = Minus(r.value_num_prev, r.value_num)] :
                   r \in merge_delta(tail_1(s), nth_minus_2(s))} : s \in sort_values_date(frame)}

compute_latest_deltas(frame) ==
    IF frame = {}
        THEN {frame}
        ELSE {merge_delta(tail_1(s), nth_minus_2(s)) : s \in sort_values_date(frame)}

\* a variant reporting the oldest date of every metric
data_health_min(frame, metrics_config, today) ==
    {[metric_key |-> m,
      last_date |-> MaxOf({0 - r.date : r \in {q \in frame : q.metric_key = m}}) * (0 - 1),
      days_since |-> today + MaxOf({0 - r.date : r \in {q \in frame : q.metric_key = m}}),
      display_name |-> metrics_config[m].display_name,
      cadence |-> metrics_config[m].cadence] : m \in {r.metric_key : r \in frame}}

data_health(frame, metrics_config, today) ==
    {[metric_key |-> m,
      last_date |-> MaxOf({r.date : r \in {q \in frame : q.metric_key = m}}),
      days_since |-> today - MaxOf({r.date : r \in {q \in frame : q.metric_key = m}}),
      display_name |-> metrics_config[m].display_name,
      cadence |-> metrics_config[m].cadence] : m \in {r.metric_key : r \in frame}}

\* the staleness flag put on a row of data_health: more than one day since
\* the metric's last observation
stale(health_row) == health_row.days_since > 1

\* the stores the queries are run on: three people, two of them with the
\* same display name, two metrics, three dates
QueryPeople ==
    {PersonOf(1, WatchlistEntry("bts", "BTS", "KR")),
     PersonOf(2, WatchlistEntry("lalisa", "Lisa", "TH")),
     PersonOf(3, WatchlistEntry("lisa", "Lisa", "KR"))}

QueryMetrics ==
    ("realtime_pos_sales" :> [display_name |-> "Realtime POS sales", cadence |-> "daily"])
        @@ ("brand_tier" :> [display_name |-> "Brand tier", cadence |-> "weekly"])

\* the value stored for a person, a metric and a date
QueryValue(person_id, metric_key, date) ==
    IF metric_key = "brand_tier"
        THEN normalize_value(metric_key, <<>>,
                 <<<<"Ambassador", "Muse", "Global Ambassador">>[date]>>)
        ELSE <<<< <<10, 15, 12>>[date] + 100 * (person_id - 1) >>, <<>>>>

QueryRows ==
    {ObservationOf(p.id, m, d, QueryValue(p.id, m, d), "demo") :
        p \in QueryPeople, m \in DOMAIN QueryMetrics, d \in 1..Today}

\* rows in the store
MaxObs == 3

\* the tables a store can hold: one row per key (db.py 47-54), and a
\* value_num column that is not NULL throughout
QueryStores ==
    {obs \in SUBSET QueryRows :
        /\ Cardinality(obs) <= MaxObs
        /\ obs # {} => \E o \in obs : o.value_num # <<>>}

InitQueries ==
    /\ people = QueryPeople
    /\ observations \in QueryStores
    /\ metrics = QueryMetrics
    /\ obs_df = load_observations_df(people, observations)
    /\ q_result = [op |-> "none"]
    /\ watchlist = <<>>
    /\ work = 0
    /\ last_pass = NoPass
    /\ pc = "idle"
    /\ x_df = <<>>
    /\ yt_df = <<>>
    /\ chart_df = [none |-> TRUE, rows |-> <<>>]
    /\ results = <<>>
    /\ position = Idle
    /\ max_position = 0
    /\ pos_score = Idle
    /\ IdleNormalize
    /\ IdleRace
    /\ IdleCollector

queryRest ==
    <<x_df, yt_df, chart_df, pc, results, position, max_position, pos_score,
      normalizeVars, storeVars, raceVars, collectorVars, obs_df>>

LatestObservations ==
    /\ q_result.op = "none"
    /\ \E out \in latest_observations(obs_df) :
          q_result' = [op |-> "latest_observations", rows |-> out]
    /\ UNCHANGED queryRest

ComputeLatestDeltas ==
    /\ q_result.op = "none"
    /\ \E out \in compute_latest_deltas(obs_df) :
          q_result' = [op |-> "compute_latest_deltas", rows |-> out]
    /\ UNCHANGED queryRest

\* health = data_health(df, metrics), and the rows flagged as stale
DataHealth ==
    /\ q_result.op = "none"
    /\ LET health == data_health(obs_df, metrics, Today)
       IN  q_result' = [op |-> "data_health", rows |-> health,
                        stale |-> {h.metric_key : h \in {r \in health : stale(r)}}]
    /\ UNCHANGED queryRest

NextQueries == LatestObservations \/ ComputeLatestDeltas \/ DataHealth

SpecQueries == InitQueries /\ [][NextQueries]_vars

----------------------------------------------------------------------------
(* collect_x_data, collectors/x_collector.py.  A row of all_data is        *)
(* [celebrity, tweet]: the artist's name and the number of the tweet among *)
(* the tweets the API returns for the artist.                              *)

\* what the API answers for an artist when it does not rate-limit: no such
\* user, an exception other than TooManyRequests, or count tweets of which
\* the one numbered bad (0: none) makes the loop over the tweets raise
NotFound == [answer |-> "not_found"]
ApiError == [answer |-> "error"]
Tweets(count, bad) == [answer |-> "tweets", count |-> count, bad |-> bad]

\* the rows appended for an artist before the loop over the tweets ends
tweet_rows(name, a) ==
    IF a.answer # "tweets"
        THEN <<>>
        ELSE [i \in 1..(IF a.bad = 0 THEN a.count ELSE a.bad - 1) |->
                 [celebrity |-> name, tweet |-> i]]

\* the event an iteration that was not rate-limited ends with
outcome_of(a) ==
    CASE a.answer = "not_found" -> "not_found"
      [] a.answer = "tweets" /\ a.bad = 0 -> "collected"
      [] OTHER -> "error"

\* a variant that does not mark an artist whose user is not found
iteration_unmarked_not_found(name, a, index, collected, data) ==
    [index |-> index + 1,
     collected |-> IF a.answer = "not_found" THEN collected ELSE collected \cup {name},
     data |-> data \o tweet_rows(name, a),
     event |-> outcome_of(a)]

\* one iteration of the while loop that is not rate-limited (lines 88-149
\* and 171-176): the artist is marked and the index advances
iteration(name, a, index, collected, data) ==
    [index |-> index + 1,
     collected |-> collected \cup {name},
     data |-> data \o tweet_rows(name, a),
     event |-> outcome_of(a)]

\* a variant of the handler that gives up the artist
too_many_requests_skip(index, collected, data) ==
    [index |-> index + 1, collected |-> collected, data |-> data,
     event |-> "rate_limited"]

\* except tweepy.TooManyRequests (lines 151-169): nothing changes but the
\* progress file
too_many_requests(index, collected, data) ==
    [index |-> index, collected |-> collected, data |-> data, event |-> "rate_limited"]

\* artists.json and the API: up to MaxArtists artists, the API rate-limits
\* at most MaxLimits requests
MaxArtists == 3
MaxLimits == 2

ArtistNames == {"NewJeans", "BTS"}

Answers == {NotFound, ApiError, Tweets(0, 0), Tweets(2, 0), Tweets(2, 2)}

InitCollector ==
    /\ artists \in SeqsUpTo(ArtistNames, MaxArtists)
    /\ x_api \in {[token |-> t, answers |-> a] :
                    t \in BOOLEAN, a \in [DOMAIN artists -> Answers]}
    /\ artist_index = 0
    /\ collected_artists = {}
    /\ all_data = <<>>
    /\ x_pc = "start"
    /\ limits_left \in 0..MaxLimits
    /\ x_log = <<>>
    /\ pc = "idle"
    /\ x_df = <<>>
    /\ yt_df = <<>>
    /\ chart_df = [none |-> TRUE, rows |-> <<>>]
    /\ results = <<>>
    /\ position = Idle
    /\ max_position = 0
    /\ pos_score = Idle
    /\ IdleNormalize
    /\ IdleStore
    /\ IdleRace
    /\ IdleQueries

collectorRest ==
    <<x_df, yt_df, chart_df, pc, results, position, max_position, pos_score,
      normalizeVars, storeVars, raceVars, queryVars, artists, x_api>>

\* lines 52-62: return an empty frame without a token or without artists
Enter ==
    /\ x_pc = "start"
    /\ x_pc' = IF ~x_api.token \/ artists = <<>> THEN "returned" ELSE "loop"
    /\ UNCHANGED <<artist_index, collected_artists, all_data, limits_left, x_log,
                   collectorRest>>

\* the artist the loop is at
Current == artists[artist_index + 1]

InLoop == x_pc = "loop" /\ artist_index < Len(artists)

\* lines 84-86: the name is already in collected_artists
SkipCollected ==
    /\ InLoop
    /\ Current \in collected_artists
    /\ artist_index' = artist_index + 1
    /\ x_log' = Append(x_log, [name |-> Current, event |-> "skipped"])
    /\ UNCHANGED <<collected_artists, all_data, x_pc, limits_left, collectorRest>>

\* the requests for the artist are answered
Fetch ==
    /\ InLoop
    /\ Current \notin collected_artists
    /\ LET it == iteration(Current, x_api.answers[artist_index + 1], artist_index,
                           collected_artists, all_data)
       IN  /\ artist_index' = it.index
           /\ collected_artists' = it.collected
           /\ all_data' = it.data
           /\ x_log' = Append(x_log, [name |-> Current, event |-> it.event])
    /\ UNCHANGED <<x_pc, limits_left, collectorRest>>

\* get_user or get_users_tweets raises TooManyRequests
RateLimited ==
    /\ InLoop
    /\ Current \notin collected_artists
    /\ limits_left > 0
    /\ limits_left' = limits_left - 1
    /\ LET it == too_many_requests(artist_index, collected_artists, all_data)
       IN  /\ artist_index' = it.index
           /\ collected_artists' = it.collected
           /\ all_data' = it.data
           /\ x_log' = Append(x_log, [name |-> Current, event |-> it.event])
    /\ x_pc' = "waiting"
    /\ UNCHANGED collectorRest

\* _wait_for_rate_limit_reset returns
Resume ==
    /\ x_pc = "waiting"
    /\ x_pc' = "loop"
    /\ UNCHANGED <<artist_index, collected_artists, all_data, limits_left, x_log,
                   collectorRest>>

\* line 181: return pd.DataFrame(all_data)
Return ==
    /\ x_pc = "loop"
    /\ artist_index >= Len(artists)
    /\ x_pc' = "returned"
    /\ UNCHANGED <<artist_index, collected_artists, all_data, limits_left, x_log,
                   collectorRest>>

NextCollector == Enter \/ SkipCollected \/ Fetch \/ RateLimited \/ Resume \/ Return

SpecCollector == InitCollector /\ [][NextCollector]_vars

\* the loop keeps running: no step of collect_x_data blocks for ever, the
\* wait of 15 minutes included
SpecCollectorFair == SpecCollector /\ WF_vars(NextCollector)

----------------------------------------------------------------------------
(* Claims about position_to_score, checked under SpecPosition.             *)

\* C5 as stated: for every ceiling max the scorer uses (100, 200) and every
\* rank r with 1 <= r <= max, position_to_score(r, max) = 101 - r, so rank
\* max scores 1.
C5_Original ==
    (pc = "done" /\ position # <<>> /\ 1 <= position[1] /\ position[1] <= max_position)
        => pos_score = <<101 - position[1]>>

\* C5 amended: for every ceiling max the scorer uses and every rank r with
\* 1 <= r <= max, position_to_score(r, max) is 101 - r when r <= 100 and 0
\* when 100 < r <= max; rank 1 scores 100, rank 100 scores 1, and rank max
\* scores 1 only for the ceiling 100 (0 for the ceiling 200).
C5_Amended ==
    (pc = "done" /\ position # <<>> /\ 1 <= position[1] /\ position[1] <= max_position)
        => /\ position[1] <= 100 => pos_score = <<101 - position[1]>>
           /\ position[1] > 100 => pos_score = <<0>>
           /\ position[1] = 1 => pos_score = <<100>>
           /\ position[1] = max_position
                 => pos_score = <<IF max_position = 100 THEN 1 ELSE 0>>

C5_Witness ==
    /\ pc = "done"
    /\ position = <<150>>
    /\ max_position = 200
    /\ pos_score = <<0>>

\* C6: for every rank r greater than the ceiling max, and for a missing
\* rank, position_to_score(r, max) = 0.
C6_BeyondCeilingOrMissingScoresZero ==
    (pc = "done" /\ (position = <<>> \/ position[1] > max_position))
        => pos_score = <<0>>

C6_Witness ==
    /\ pc = "done"
    /\ position = <<101>>
    /\ max_position = 100
    /\ pos_score = <<0>>

\* C7: a rank that is zero or negative scores 0 (treated as not charting),
\* and for any integer rank the score is never below 0 nor above 100.
C7_MalformedRankScoresZero ==
    pc = "done"
        => /\ (position # <<>> /\ position[1] <= 0) => pos_score = <<0>>
           /\ 0 <= pos_score[1] /\ pos_score[1] <= 100

----------------------------------------------------------------------------
(* Claims about calculate_signal_score, checked under Spec.                *)

\* the rows of results as a set
ResultRows == {results[i] : i \in 1..Len(results)}

\* the unrounded components of a person under the batches of the state
XOf(c) == x_score(celeb_rows(x_df, c))
YtOf(c) == yt_score(celeb_rows(yt_df, c))
ChartOf(c) ==
    chart_score(celeb_rows(chart_rows(chart_df), c), category(x_df, yt_df, chart_df, c))

\* C1 as stated: run without chart data (chart batch absent or empty), every
\* person's final score is 0.6 * social + 0.4 * video, so a person with
\* social component 100 and no video data gets 60.0.
C1_Original ==
    (pc = "done" /\ chart_rows(chart_df) = <<>>)
        => \A r \in ResultRows :
              r.signal_score =
                  Round1(RAdd(RMul(Rat(6, 10), XOf(r.celebrity)),
                              RMul(Rat(4, 10), YtOf(r.celebrity))))

\* C1 amended: run without chart data (chart batch absent or empty), every
\* scored person's final score is 0.3 * social + 0.2 * video, rounded to one
\* decimal, so a person with social component 100 and no video data gets 30.0.
C1_Amended ==
    (pc = "done" /\ chart_rows(chart_df) = <<>>)
        => \A r \in ResultRows :
              /\ r.signal_score =
                     Round1(RAdd(RMul(Rat(3, 10), XOf(r.celebrity)),
                                 RMul(Rat(2, 10), YtOf(r.celebrity))))
              /\ (XOf(r.celebrity) = RInt(100) /\ celeb_rows(yt_df, r.celebrity) = <<>>)
                     => r.signal_score = RInt(30)

C1_Witness ==
    /\ pc = "done"
    /\ chart_rows(chart_df) = <<>>
    /\ \E r \in ResultRows :
          /\ r.x_component = RInt(100)
          /\ celeb_rows(yt_df, r.celebrity) = <<>>
          /\ r.signal_score = RInt(30)

\* C2: with a non-empty chart batch, every scored person's final score is
\* 0.3 * social + 0.2 * video + 0.5 * chart (rounded to one decimal), also
\* for the persons the chart batch does not hold.
C2_ChartRegimeForEveryPerson ==
    (pc = "done" /\ chart_rows(chart_df) # <<>>)
        => \A r \in ResultRows :
              r.signal_score =
                  Round1(RAdd(RAdd(RMul(Rat(3, 10), XOf(r.celebrity)),
                                   RMul(Rat(2, 10), YtOf(r.celebrity))),
                              RMul(Rat(5, 10), ChartOf(r.celebrity))))

C2_Witness ==
    /\ pc = "done"
    /\ chart_rows(chart_df) # <<>>
    /\ \E r \in ResultRows :
          /\ r.celebrity \notin celebs_of(chart_rows(chart_df))
          /\ r.x_component = RInt(100)
          /\ r.signal_score = RInt(30)

InUnit(v) == RLe(RInt(0), v) /\ RLe(v, RInt(100))

\* C3: every final score returned lies in [0, 100], and so does each
\* reported component (x_component, yt_component, chart_component).
C3_ScoresWithinBounds ==
    pc = "done"
        => \A r \in ResultRows :
              /\ InUnit(r.signal_score)
              /\ InUnit(r.x_component)
              /\ InUnit(r.yt_component)
              /\ InUnit(r.chart_component)

\* C4: the scorer never raises for missing data: with no row in any batch it
\* returns an empty table, and a person missing from a batch is still scored,
\* with only the component of that batch at 0.
C4_NeverRaisesForMissingData ==
    /\ pc # "raised"
    /\ (pc = "done" /\ x_df = <<>> /\ yt_df = <<>> /\ chart_rows(chart_df) = <<>>)
          => results = <<>>
    /\ pc = "done"
          => \A c \in all_celebs(x_df, yt_df, chart_df) :
                \E r \in ResultRows :
                    /\ r.celebrity = c
                    /\ celeb_rows(x_df, c) = <<>> => r.x_component = RInt(0)
                    /\ celeb_rows(yt_df, c) = <<>> => r.yt_component = RInt(0)
                    /\ celeb_rows(chart_rows(chart_df), c) = <<>>
                          => r.chart_component = RInt(0)

\* C8: for a person with social rows, the social component is
\* min(e / f * 100 * 20, 100) when the follower count f > 0 (e the average
\* engagement of the person's rows) and 0 when f = 0; over f > 0 it does not
\* decrease when e grows and does not increase when f grows.
SocialReference(e, f) ==
    IF f > 0 THEN (IF e.n * 2000 <= 100 * e.d * f THEN Rat(e.n * 2000, e.d * f)
                   ELSE RInt(100))
    ELSE RInt(0)

\* engagement and follower counts the recorded rows are compared with
EngagementProbes == {0, 1, 400, 1000, 25500, 50000, 60000}
FollowerProbes == {1, 1000, 500000, 1000000}

\* the person's social rows with every engagement set to e
WithEngagement(celeb_x, e) ==
    [i \in 1..Len(celeb_x) |-> [celeb_x[i] EXCEPT !.engagement = e]]

\* the person's social rows with every follower count set to f
WithFollowers(celeb_x, f) ==
    [i \in 1..Len(celeb_x) |-> [celeb_x[i] EXCEPT !.follower_count = f]]

C8_SocialComponent ==
    pc = "done"
        => \A r \in ResultRows :
              LET celeb_x == celeb_rows(x_df, r.celebrity)
                  e == Rat(SumSeq([i \in 1..Len(celeb_x) |-> celeb_x[i].engagement]),
                           Len(celeb_x))
                  f == celeb_x[1].follower_count
              IN  celeb_x # <<>>
                    => /\ x_score(celeb_x) = SocialReference(e, f)
                       /\ r.x_component = Round1(SocialReference(e, f))
                       /\ f = 0 => r.x_component = RInt(0)
                       /\ f > 0 =>
                            /\ \A e2 \in EngagementProbes :
                                  /\ RLe(e, RInt(e2)) =>
                                        RLe(x_score(celeb_x),
                                            x_score(WithEngagement(celeb_x, e2)))
                                  /\ RLe(RInt(e2), e) =>
                                        RLe(x_score(WithEngagement(celeb_x, e2)),
                                            x_score(celeb_x))
                            /\ \A f2 \in FollowerProbes :
                                  /\ f <= f2 =>
                                        RLe(x_score(WithFollowers(celeb_x, f2)),
                                            x_score(celeb_x))
                                  /\ f2 <= f =>
                                        RLe(x_score(celeb_x),
                                            x_score(WithFollowers(celeb_x, f2)))

C8_Witness ==
    /\ pc = "done"
    /\ \E r \in ResultRows :
          /\ Len(celeb_rows(x_df, r.celebrity)) = 2
          /\ celeb_rows(x_df, r.celebrity)[1].engagement
                # celeb_rows(x_df, r.celebrity)[2].engagement
          /\ celeb_rows(x_df, r.celebrity)[1].follower_count > 0
          /\ r.x_component = RInt(51)

\* C9: the chart component of a person is the weighted average of the
\* positive chart-position scores only, with the weights 0.40 (Spotify),
\* 0.30 (Hot 100), 0.15 (Billboard 200), 0.15 (Melon) renormalized to sum to
\* 1 over the participating fields; it is 0 when no field has a positive
\* score, and a person whose only rank is Spotify rank 1 gets 100.
ChartFields == {"spotify_position", "billboard_hot100", "billboard_200", "melon_position"}

FieldWeight(fld) ==
    CASE fld = "spotify_position" -> 40
      [] fld = "billboard_hot100" -> 30
      [] fld = "billboard_200" -> 15
      [] fld = "melon_position" -> 15

FieldScore(row, fld) ==
    CASE fld = "spotify_position" -> position_to_score(row.spotify_position, 200)
      [] fld = "billboard_hot100" -> position_to_score(row.billboard_hot100, 100)
      [] fld = "billboard_200" -> position_to_score(row.billboard_200, 200)
      [] fld = "melon_position" -> position_to_score(row.melon_position, 100)

\* the fields that take part: a positive score, Melon for K-pop only
Participating(row, cat) ==
    {fld \in ChartFields :
        /\ FieldScore(row, fld) > 0
        /\ fld = "melon_position" => cat = "K-pop"}

RECURSIVE RSumOver(_, _, _, _)
\* the sum over the fields of flds of (weight / total) * score
RSumOver(flds, row, total, acc) ==
    IF flds = {} THEN acc
    ELSE LET fld == CHOOSE x \in flds : TRUE
         IN  RSumOver(flds \ {fld}, row, total,
                      RAdd(acc, RMul(Rat(FieldWeight(fld), total),
                                     RInt(FieldScore(row, fld)))))

RECURSIVE WeightOver(_)
WeightOver(flds) ==
    IF flds = {} THEN 0
    ELSE LET fld == CHOOSE x \in flds : TRUE
         IN  FieldWeight(fld) + WeightOver(flds \ {fld})

ChartReference(row, cat) ==
    LET part == Participating(row, cat)
    IN  IF part = {} THEN RInt(0)
        ELSE RSumOver(part, row, WeightOver(part), RInt(0))

C9_ChartComponent ==
    pc = "done"
        => \A r \in ResultRows :
              LET celeb_chart == celeb_rows(chart_rows(chart_df), r.celebrity)
              IN  celeb_chart # <<>>
                    => /\ r.chart_component
                            = Round1(ChartReference(celeb_chart[1], r.category))
                       /\ Participating(celeb_chart[1], r.category) = {}
                            => r.chart_component = RInt(0)
                       /\ ( /\ celeb_chart[1].spotify_position = <<1>>
                            /\ celeb_chart[1].billboard_hot100 = <<>>
                            /\ celeb_chart[1].billboard_200 = <<>>
                            /\ celeb_chart[1].melon_position = <<>> )
                            => r.chart_component = RInt(100)

C9_Witness ==
    /\ pc = "done"
    /\ \E r \in ResultRows :
          LET celeb_chart == celeb_rows(chart_rows(chart_df), r.celebrity)
          IN  /\ celeb_chart # <<>>
              /\ Cardinality(Participating(celeb_chart[1], r.category)) = 4
              /\ r.chart_component = Rat(161, 2)

\* C10: the Melon rank takes part in the chart component only for a person
\* whose resolved category is 'K-pop': for a person of any other category,
\* two runs that differ only in that person's Melon rank give the same chart
\* component and the same final score.
MelonProbes == {<<>>, <<0>>, <<1>>, <<40>>, <<100>>, <<101>>}

\* the chart batch with the Melon rank of every row of person c set to m
WithMelon(chart, c, m) ==
    [chart EXCEPT !.rows =
        [i \in 1..Len(chart.rows) |->
            IF chart.rows[i].celebrity = c
                THEN [chart.rows[i] EXCEPT !.melon_position = m]
                ELSE chart.rows[i]]]

C10_MelonOnlyForKpop ==
    pc = "done"
        => \A r \in ResultRows :
              (r.category # "K-pop"
                   /\ celeb_rows(chart_rows(chart_df), r.celebrity) # <<>>)
                => \A m \in MelonProbes :
                      \A out \in calculate_signal_score(
                                     x_df, yt_df, WithMelon(chart_df, r.celebrity, m)) :
                          \E r2 \in {out.rows[i] : i \in 1..Len(out.rows)} :
                              /\ r2.celebrity = r.celebrity
                              /\ r2.chart_component = r.chart_component
                              /\ r2.signal_score = r.signal_score

C10_Witness ==
    /\ pc = "done"
    /\ \E r \in ResultRows :
          LET celeb_chart == celeb_rows(chart_rows(chart_df), r.celebrity)
          IN  /\ r.category = "Western"
              /\ celeb_chart # <<>>
              /\ celeb_chart[1].category = "K-pop"
              /\ celeb_chart[1].melon_position = <<40>>
              /\ r.chart_component = Rat(839, 10)

\* C11: the result holds exactly one row for each person of the union of the
\* persons of the social, video and chart batches, and no other row; a
\* person absent from one or two batches is scored with 0 for each missing
\* component.
PersonsOfBatches ==
    {x_df[i].celebrity : i \in 1..Len(x_df)}
        \cup {yt_df[i].celebrity : i \in 1..Len(yt_df)}
        \cup (IF chart_df.none THEN {}
              ELSE {chart_df.rows[i].celebrity : i \in 1..Len(chart_df.rows)})

InBatch(df, c) == \E i \in 1..Len(df) : df[i].celebrity = c

C11_OneRowPerPersonOfUnion ==
    pc = "done"
        => /\ \A c \in PersonsOfBatches :
                 Cardinality({i \in 1..Len(results) : results[i].celebrity = c}) = 1
           /\ \A i \in 1..Len(results) : results[i].celebrity \in PersonsOfBatches
           /\ \A i \in 1..Len(results) :
                 LET r == results[i]
                 IN  /\ ~InBatch(x_df, r.celebrity) => r.x_component = RInt(0)
                     /\ ~InBatch(yt_df, r.celebrity) => r.yt_component = RInt(0)
                     /\ ~InBatch(chart_rows(chart_df), r.celebrity)
                           => r.chart_component = RInt(0)

C11_Witness ==
    /\ pc = "done"
    /\ Len(results) = 2
    /\ \E i \in 1..2 :
          /\ ~InBatch(x_df, results[i].celebrity)
          /\ ~InBatch(yt_df, results[i].celebrity)
          /\ results[i].chart_component = RInt(100)
          /\ results[i].x_component = RInt(0)

\* C12: the category of a scored person is that of the first batch holding
\* the person in the order social, video, chart ('Other' if none holds the
\* person); a lower-priority batch never overrides a higher-priority one.
FirstCategory(df, c) ==
    df[CHOOSE i \in 1..Len(df) :
          /\ df[i].celebrity = c
          /\ \A j \in 1..(i - 1) : df[j].celebrity # c].category

C12_CategoryByBatchPriority ==
    pc = "done"
        => \A r \in ResultRows :
              r.category =
                  IF InBatch(x_df, r.celebrity) THEN FirstCategory(x_df, r.celebrity)
                  ELSE IF InBatch(yt_df, r.celebrity)
                      THEN FirstCategory(yt_df, r.celebrity)
                  ELSE IF InBatch(chart_rows(chart_df), r.celebrity)
                      THEN FirstCategory(chart_rows(chart_df), r.celebrity)
                  ELSE "Other"

C12_Witness ==
    /\ pc = "done"
    /\ \E r \in ResultRows :
          /\ InBatch(x_df, r.celebrity)
          /\ InBatch(chart_rows(chart_df), r.celebrity)
          /\ FirstCategory(x_df, r.celebrity) = "Western"
          /\ FirstCategory(chart_rows(chart_df), r.celebrity) = "K-pop"
          /\ r.category = "Western"

\* C13: the rows returned are ordered by final score descending: of two
\* consecutive rows the earlier one has the greater or equal signal_score.
C13_SortedDescending ==
    pc = "done"
        => \A i \in 1..(Len(results) - 1) :
              RLe(results[i + 1].signal_score, results[i].signal_score)

C13_Witness ==
    /\ pc = "done"
    /\ Len(results) = 2
    /\ RLt(results[2].signal_score, results[1].signal_score)

\* C14: the video component of a person is min(total_views / 1,000,000 * 10,
\* 100), total_views the sum of the views of all the person's video rows
\* (10M views = 100), and 0 for a person without video rows.
ViewsOf(c) == SumSeq([i \in 1..Len(yt_df) |->
                         IF yt_df[i].celebrity = c THEN yt_df[i].views ELSE 0])

C14_VideoComponent ==
    pc = "done"
        => \A r \in ResultRows :
              /\ InBatch(yt_df, r.celebrity)
                    => r.yt_component =
                          IF ViewsOf(r.celebrity) >= 10000000 THEN RInt(100)
                          ELSE Round1(Rat(ViewsOf(r.celebrity), 100000))
              /\ ~InBatch(yt_df, r.celebrity) => r.yt_component = RInt(0)

C14_Witness ==
    /\ pc = "done"
    /\ \E r \in ResultRows :
          /\ Len(celeb_rows(yt_df, r.celebrity)) = 2
          /\ ViewsOf(r.celebrity) = 5250000
          /\ r.yt_component = Rat(105, 2)

----------------------------------------------------------------------------
(* Claims about normalize_value, checked under SpecNormalize.              *)

\* C15: normalize_value never fails; for metric 'brand_tier' with a text
\* present it returns (rank of the text in {Global Ambassador: 1,
\* Ambassador: 2, House Friend: 3, Appearance: 4}, the text), the rank being
\* null for a text outside the table; for every other metric key, and for
\* brand_tier without text, it returns both values unchanged.
TierReference(t) ==
    CASE t = "Global Ambassador" -> <<1>>
      [] t = "Ambassador" -> <<2>>
      [] t = "House Friend" -> <<3>>
      [] t = "Appearance" -> <<4>>
      [] OTHER -> <<>>

C15_NormalizeValueReference ==
    pc = "done"
        => IF nv_args[1] = "brand_tier" /\ nv_args[3] \notin {<<>>, <<"">>}
               THEN nv_result = <<TierReference(nv_args[3][1]), nv_args[3]>>
               ELSE nv_result = <<nv_args[2], nv_args[3]>>

C15_Witness ==
    /\ pc = "done"
    /\ nv_args = <<"brand_tier", <<7>>, <<"Ambassador">> >>
    /\ nv_result = << <<2>>, <<"Ambassador">> >>

----------------------------------------------------------------------------
(* Claims about the observation store, checked under SpecStore.            *)

\* the rows stored under a key
Stored(key) == {o \in observations : KeyOf(o) = key}

UniquePerKey == \A o1, o2 \in observations : KeyOf(o1) = KeyOf(o2) => o1 = o2

\* the person key an RSS tag stands for under a watchlist: that of the last
\* entry whose display name or person key normalizes to the tag's form
TagPersonKey(wl, tag) ==
    LET matching == {i \in DOMAIN wl :
                        _normalize_key(tag) \in {_normalize_key(wl[i].display_name),
                                                 _normalize_key(wl[i].person_key)}}
    IN  IF matching = {} THEN _normalize_key(tag) ELSE wl[MaxOf(matching)].person_key

\* the entries the last RSS pass took in: those of the sources that
\* answered, for the metrics metrics.yml defines
RssEntries ==
    {e \in UNION {{last_pass.input[i].parsed[j] : j \in DOMAIN last_pass.input[i].parsed} :
                     i \in {i \in DOMAIN last_pass.input : ~last_pass.input[i].error}} :
        e.metric_key \in DOMAIN metrics}

RssKey(e) ==
    <<(CHOOSE p \in people : p.person_key = TagPersonKey(last_pass.watchlist, e.tag)).id,
      e.metric_key, e.date>>

RssValues(key) == {e.value_num : e \in {e \in RssEntries : RssKey(e) = key}}

MinOf(S) == CHOOSE m \in S : \A n \in S : m <= n

\* the value the pass owes a key
RssBest(key) ==
    IF metrics[key[2]].directionality = "lower_is_better"
        THEN MinOf(RssValues(key))
        ELSE MaxOf(RssValues(key))

\* C16: after an RSS pass, every (person, metric, date) key its entries
\* produced, in one feed or several and in whatever order, is stored once,
\* with the minimum of the values observed for it when the metric is
\* lower_is_better and the maximum otherwise.
C16_RssReconciliation ==
    (last_pass.kind = "rss" /\ last_pass.outcome = "ok")
        => \A e \in RssEntries :
               \E o \in observations :
                   /\ Stored(RssKey(e)) = {o}
                   /\ o.value_num = <<RssBest(RssKey(e))>>

\* values 5 then 3 under lower_is_better keep 3
C16_Witness ==
    /\ last_pass.kind = "rss"
    /\ last_pass.outcome = "ok"
    /\ metrics["realtime_pos_sales"].directionality = "lower_is_better"
    /\ \E e1, e2 \in RssEntries :
           /\ RssKey(e1) = RssKey(e2)
           /\ e1.value_num = 5
           /\ e2.value_num = 3
           /\ last_pass.input[1].parsed = <<e1, e2>>
           /\ \E o \in Stored(RssKey(e1)) : o.value_num = <<3>>

\* the id of the person with a person key, in the people table
PersonId(person_key) == (CHOOSE p \in people : p.person_key = person_key).id

\* whether the last pass got as far as its input: seeding did not fail
Seeded == last_pass.kind # "none" /\ last_pass.outcome # "IntegrityError(people.person_key)"

\* the raw rows of the last pass, each with its place in the input (source or
\* watchlist position, then position within it), the key it is for and its
\* value: the parsed entries of an RSS pass, the counters Last.fm answered
\* with, the rows of the demo file for known metrics and persons
RawRssRows ==
    LET entry(at) == last_pass.input[at[1]].parsed[at[2]]
        places == UNION {{<<i, j>> : j \in DOMAIN last_pass.input[i].parsed} :
                            i \in {i \in DOMAIN last_pass.input : ~last_pass.input[i].error}}
    IN  {[at |-> at, key |-> RssKey(entry(at)), value_num |-> <<entry(at).value_num>>] :
            at \in {at \in places : entry(at).metric_key \in DOMAIN metrics}}

LastfmCounter(j) == IF j = 1 THEN "lastfm_listeners" ELSE "lastfm_playcount"

RawLastfmRows ==
    LET wl == last_pass.watchlist
        answer(i) == last_pass.input[wl[i].display_name]
    IN  {[at |-> <<i, j>>,
          key |-> <<PersonId(wl[i].person_key), LastfmCounter(j), Today>>,
          value_num |-> <<IF j = 1 THEN answer(i).listeners ELSE answer(i).playcount>>] :
            <<i, j>> \in {ij \in (DOMAIN wl) \X (1..2) :
                             /\ answer(ij[1]).status = "ok"
                             /\ LastfmCounter(ij[2]) \in DOMAIN metrics}}

RawDemoRows ==
    LET file == last_pass.input
        latest == MaxOf({file[i].date : i \in DOMAIN file})
    IN  {[at |-> <<i, 1>>,
          key |-> <<PersonId(file[i].person_key), file[i].metric_key,
                    file[i].date + (Today - latest)>>,
          value_num |-> IF file[i].metric_key = "brand_tier"
                               /\ file[i].value_text \notin {<<>>, <<"">>}
                            THEN TierReference(file[i].value_text[1])
                            ELSE file[i].value_num] :
            i \in {i \in DOMAIN file :
                      /\ file[i].metric_key \in DOMAIN metrics
                      /\ \E p \in people : p.person_key = file[i].person_key}}

RawRows ==
    CASE last_pass.kind = "rss" -> RawRssRows
      [] last_pass.kind = "lastfm" -> RawLastfmRows
      [] last_pass.kind = "demo" -> RawDemoRows

RawKeys == {r.key : r \in RawRows}

RawValues(key) == {r.value_num : r \in {r \in RawRows : r.key = key}}

\* two raw rows of the pass are for the same key
DuplicateKeys == {r.key : r \in {r \in RawRows : \E q \in RawRows : q.key = r.key /\ q.at # r.at}}

\* no fetch and no parse of the pass raised
Answered == last_pass.outcome \notin {"HTTPError", "TypeError"}

\* C17: the store never holds two observations for one (person, metric,
\* date) triple, and a pass that repeats the pass before it on the same input
\* leaves exactly one row for every key of that input, holding a value of the
\* input.
C17_OneRowPerKeyAndIdempotent ==
    /\ UniquePerKey
    /\ (Seeded /\ Answered /\ last_pass.repeat)
           => \A key \in RawKeys :
                  \E o \in observations :
                      /\ Stored(key) = {o}
                      /\ o.value_num \in RawValues(key)

\* C18: a pass whose raw input holds two rows for one key ends without a
\* uniqueness conflict on observations and leaves a single row for the key.
C18_DuplicatesReconciledWithoutError ==
    (Seeded /\ Answered /\ DuplicateKeys # {})
        => /\ last_pass.outcome = "ok"
           /\ \A key \in DuplicateKeys : Cardinality(Stored(key)) = 1

\* the keys the pass wrote: those of its raw rows when it committed
WrittenKeys == IF last_pass.outcome = "ok" THEN RawKeys ELSE {}

\* C19 as stated: whichever the pass, every observation stored before it
\* whose key the pass does not write is still stored, unchanged, after it.
C19_Original ==
    Seeded => \A o \in last_pass.before : KeyOf(o) \notin WrittenKeys => o \in observations

\* C19 as amended: a Last.fm or RSS pass keeps every observation stored
\* before it whose key it does not write; a demo pass that got past seeding
\* keeps none: what is stored after it is what it wrote itself; a pass whose
\* seeding failed leaves the observations as they were.
C19_Amended ==
    /\ (Seeded /\ last_pass.kind \in {"lastfm", "rss"})
           => \A o \in last_pass.before : KeyOf(o) \notin WrittenKeys => o \in observations
    /\ (Seeded /\ last_pass.kind = "demo")
           => \A o \in observations : KeyOf(o) \in WrittenKeys /\ o.raw_json = "demo"
    /\ (last_pass.kind # "none" /\ ~Seeded) => observations = last_pass.before

\* an RSS pass replaced one stored row and kept another, of another date
C19_Witness ==
    /\ last_pass.kind = "rss"
    /\ last_pass.outcome = "ok"
    /\ \E o \in last_pass.before : KeyOf(o) \notin WrittenKeys /\ o \in observations
    /\ \E o \in last_pass.before : KeyOf(o) \in WrittenKeys /\ o \notin observations

\* the place of one raw row is after that of another
Later(a, b) == a[1] > b[1] \/ (a[1] = b[1] /\ a[2] > b[2])

\* the value a pass writes for a key: the reconciled value of an RSS pass,
\* the value of the last raw row for the key otherwise
PassValue(key) ==
    IF last_pass.kind = "rss"
        THEN <<RssBest(key)>>
        ELSE (CHOOSE r \in RawRows :
                  /\ r.key = key
                  /\ \A q \in RawRows : q.key = key => (q.at = r.at \/ Later(r.at, q.at))).value_num

\* C20: when a pass commits a value for a key that held an observation
\* before the pass, the store afterwards holds one row for the key, with the
\* value of this pass, whatever the value stored before.
C20_LaterWriteReplaces ==
    (Seeded /\ last_pass.outcome = "ok")
        => \A key \in RawKeys :
               (\E old \in last_pass.before : KeyOf(old) = key)
                   => \E o \in observations :
                          /\ Stored(key) = {o}
                          /\ o.value_num = PassValue(key)

\* a lower_is_better key that held 3 holds a larger value after a later pass
C20_Witness ==
    /\ last_pass.kind = "rss"
    /\ last_pass.outcome = "ok"
    /\ metrics["realtime_pos_sales"].directionality = "lower_is_better"
    /\ \E old \in last_pass.before :
           /\ old.value_num = <<3>>
           /\ KeyOf(old) \in RawKeys
           /\ \E o \in Stored(KeyOf(old)) : o.value_num = <<4>>

\* C21: the people table never holds two rows for one person_key, no pass
\* fails in seeding, and after a pass every person that was registered
\* before it and is on the watchlist is the same row (same id and key) with
\* the display name, category and country of a watchlist entry for its key.
C21_PersonUpsert ==
    /\ \A p1, p2 \in people : p1.person_key = p2.person_key => p1 = p2
    /\ last_pass.kind # "none"
           => /\ last_pass.outcome # "IntegrityError(people.person_key)"
              /\ \A old \in last_pass.registry :
                     \A i \in DOMAIN last_pass.watchlist :
                         last_pass.watchlist[i].person_key = old.person_key
                             => \E p \in people, j \in DOMAIN last_pass.watchlist :
                                    /\ p.id = old.id
                                    /\ p = PersonOf(old.id, last_pass.watchlist[j])

\* a Last.fm pass stopped in the middle of its rows: a fetch raised after
\* the rows of earlier persons were written
PartWay ==
    /\ Seeded
    /\ last_pass.kind = "lastfm"
    /\ last_pass.outcome = "HTTPError"

\* the place on the watchlist where it stopped
FailPlace ==
    MinOf({i \in DOMAIN last_pass.watchlist :
              last_pass.input[last_pass.watchlist[i].display_name].status = "HTTPError"})

\* the raw rows the pass had written before it stopped
EarlierRows == {r \in RawRows : r.at[1] < FailPlace}

\* C22: when a pass fails part-way through its rows, the rows it had written
\* for earlier keys are in the store, and every observation stored before
\* the pass for another key is still there.
C22_EarlierRowsStayCommitted ==
    PartWay
        => /\ \A r \in EarlierRows :
                  \E o \in Stored(r.key) :
                      o.value_num \in {q.value_num : q \in {q \in EarlierRows : q.key = r.key}}
           /\ \A o \in last_pass.before :
                  KeyOf(o) \notin {r.key : r \in EarlierRows} => o \in observations

----------------------------------------------------------------------------
(* Claims about concurrent passes, checked under SpecRace.                 *)

\* the key both passes write
ContendedKey == KeyOf(OldRow)

\* both passes have ended, by their last commit or by an exception
Finished == writers # <<>> /\ \A i \in DOMAIN writers : writers[i].state # "run"

\* C23: when two passes that upsert the same (person, metric, date) key
\* have both ended, whatever the interleaving of their delete, insert and
\* commit steps, the store holds exactly one row for the key and it is the
\* row one of the two passes wrote.
C23_OneRowFromOnePass ==
    Finished =>
        \E i \in DOMAIN writers : \E j \in DOMAIN writers[i].rows :
            Stored(ContendedKey) = {writers[i].rows[j]}

\* both passes committed, the second one first: the first pass's row stays
C23_Witness ==
    /\ Finished
    /\ writers[1].state = "done"
    /\ writers[2].state = "done"
    /\ writers[1].kind = "rss"
    /\ writers[2].kind = "lastfm"
    /\ OldRow \notin observations
    /\ NewRow(1) \in observations

\* the rows of a loaded frame for the contended key
Seen(frame) ==
    {r \in frame : <<r.person_key, r.metric_key, r.date>>
                      = <<"bts", ContendedKey[2], ContendedKey[3]>>}

\* C24: once a reader has seen the key stored, every later read by it,
\* while passes replace the key, shows exactly one row for the key: the old
\* row or the new row of a pass, never no row and never two.
C24_ReaderSeesOldOrNew ==
    \A a, b \in DOMAIN reads :
        (a < b /\ Seen(reads[a]) # {}) =>
            /\ Cardinality(Seen(reads[b])) = 1
            /\ \A r \in Seen(reads[b]) :
                   r.value_num \in {OldRow.value_num, NewRow(1).value_num,
                                    NewRow(2).value_num}

----------------------------------------------------------------------------
(* Claims about the read queries, checked under SpecQueries.  A (person,   *)
(* metric) pair is a pair of values of the frame's person and metric_key   *)
(* columns.                                                                *)

Pairs == {<<r.person, r.metric_key>> : r \in obs_df}

PairRows(pair) == {r \in obs_df : <<r.person, r.metric_key>> = pair}

QueryRowsOf(pair) == {r \in q_result.rows : <<r.person, r.metric_key>> = pair}

\* is row one of the rows of the greatest date among rows?
Newest(row, rows) == row \in rows /\ \A r \in rows : r.date <= row.date

\* the columns of a result row that come from the stored observation
Stripped(row) ==
    [person_key |-> row.person_key, person |-> row.person, category |-> row.category,
     metric_key |-> row.metric_key, date |-> row.date, value_num |-> row.value_num,
     value_text |-> row.value_text]

----------------------------------------------------------------------------
(* Claims about collect_x_data, checked under SpecCollector and            *)
(* SpecCollectorFair.                                                      *)

\* the events that mark an artist as processed, and those of an iteration
\* that sent requests
Marking == {"not_found", "collected", "error"}
Fetching == Marking \cup {"rate_limited"}

\* C28: a rate-limited iteration keeps all_data, the index and
\* collected_artists as they are, and the loop waits; the next iteration
\* asks for the same artist again; no artist already marked is fetched
\* again, and no tweet of an artist is twice in the output.
C28_RateLimitRetriesSameArtist ==
    /\ [][(x_pc = "loop" /\ x_pc' = "waiting") =>
             /\ all_data' = all_data
             /\ artist_index' = artist_index
             /\ collected_artists' = collected_artists]_vars
    /\ [](/\ \A i \in DOMAIN x_log :
                (x_log[i].event = "rate_limited" /\ i < Len(x_log)) =>
                    /\ x_log[i + 1].name = x_log[i].name
                    /\ x_log[i + 1].event \in Fetching
          /\ \A i, j \in DOMAIN x_log :
                (i < j /\ x_log[i].event \in Marking /\ x_log[j].event \in Fetching)
                    => x_log[j].name # x_log[i].name
          /\ \A i, j \in DOMAIN all_data : i # j => all_data[i] # all_data[j])

\* NewJeans was rate-limited with BTS's rows gathered, then collected: the
\* rows of both are in the output once
C28_Witness ==
    /\ x_pc = "returned"
    /\ artists = <<"BTS", "NewJeans">>
    /\ [i \in DOMAIN x_log |-> x_log[i].event] = <<"collected", "rate_limited", "collected">>
    /\ [i \in DOMAIN all_data |-> all_data[i].celebrity]
           = <<"BTS", "BTS", "NewJeans", "NewJeans">>

\* C29: collect_x_data returns when the rate limit is hit finitely often,
\* and then every artist's name is marked as processed, by exactly one
\* iteration; an artist is fetched once more than it was rate-limited, so
\* only a rate-limited artist is ever retried.
C29_TerminatesAllProcessedOnce ==
    /\ <>(x_pc = "returned")
    /\ []((x_pc = "returned" /\ x_api.token) =>
             /\ \A i \in DOMAIN artists : artists[i] \in collected_artists
             /\ \A name \in collected_artists :
                   /\ Cardinality({i \in DOMAIN x_log :
                          x_log[i].name = name /\ x_log[i].event \in Marking}) = 1
                   /\ Cardinality({i \in DOMAIN x_log :
                          x_log[i].name = name /\ x_log[i].event \in Fetching})
                        = 1 + Cardinality({i \in DOMAIN x_log :
                              x_log[i].name = name /\ x_log[i].event = "rate_limited"}))

\* a user that is not found, an artist whose request fails after a rate
\* limit, and an artist listed twice
C29_Witness ==
    /\ x_pc = "returned"
    /\ artists = <<"NewJeans", "BTS", "NewJeans">>
    /\ [i \in DOMAIN x_log |-> x_log[i].event]
           = <<"not_found", "rate_limited", "error", "skipped">>
    /\ collected_artists = {"NewJeans", "BTS"}

====
